---------------------------- MODULE Spec2Model ----------------------------
(***************************************************************************)
(* A model of the PVJ extraction pipeline: text acquisition                *)
(* (ocr_utils.py), segmentation, the field classifier chain, the audit     *)
(* and the aggregation (extractor.py).                                     *)
(*                                                                         *)
(* Texts are TLA+ strings, one character per position.  The module source  *)
(* is ASCII, so two code points are written with a stand-in character:     *)
(*   "~"  a code point of the Devanagari range U+0900..U+097F              *)
(*   "^"  the ellipsis U+2026 appended to a truncated charter hint         *)
(* Numbers are exact rationals <<num, den>> (den > 0).                     *)
(***************************************************************************)
EXTENDS Integers, Sequences, FiniteSets, TLC

VARIABLES
    doc,        \* the opened document: a sequence of page kinds
    maxPages,   \* cfg.MAX_PAGES: <<>> for None, <<n>> for the number n
    cancel,     \* the value cancel_cb() returns now
    pc,         \* where the running function stands
    texts,      \* the page texts acquired so far
    fut,        \* ocr_document: state of the future of every selected page
    count,      \* ocr_document: results stored so far
    rows,       \* extract_to_dataframe: entries parsed so far
    parsed,     \* extract_to_dataframe: pages parsed so far
    df,         \* extract_to_dataframe: the returned table
    summaries,  \* extract_to_dataframe: the returned summaries
    progress,   \* the progress_cb calls made so far
    block,      \* parse_block: the block text handed in
    entry,      \* parse_block: the Entry returned
    audit,      \* _row_audit_flags of entry
    arg_value,  \* normalize_units: the number handed in, <<num, den>>
    arg_unit,   \* normalize_units: the unit handed in ("" also stands for None)
    ret_qha,    \* normalize_units: the number returned
    ret_prod,   \* detect_productivity(block): <<text, confidence>>
    pieces,     \* the parts the text handed to a function run alone is made of
    arg_page,   \* hybrid_extract_text: the page of one pass of its loop, run alone
    ocr_fallbacks,  \* hybrid_extract_text: the calls of ocr_page it has made
    arg_name,   \* classify_applicant_type: the applicant handed in
    ret_label,  \* the label a classifier run alone returned
    cfg,        \* run_all.main: the Config built from the command line
    pdfs,       \* run_all.main: the PDFs find_pdfs returned
    failures,   \* run_all.main: the exceptions caught so far
    outputs,    \* run_all.main: the workbooks written so far
    attempts,   \* run_all.main: the calls of process_one made so far
    status,     \* run_all.main: <<>> while it runs, <<n>> once it returned n
    app_state,  \* PVJApp.state: the AppState of the window
    btn_start,  \* PVJApp.btn_start: the state of the Start button
    btn_cancel, \* PVJApp.btn_cancel: the state of the Cancel button
    res_q,      \* PVJApp.res_q: the JobResults put and not yet taken
    worker      \* PVJApp.worker: <<>> for None, else <<the PipelineWorker>>

\* the variables of the functions that are run alone
funvars == <<arg_value, arg_unit, ret_qha, ret_prod, pieces, arg_page, ocr_fallbacks,
                   arg_name, ret_label>>

\* the variables of the batch runner and of the window
appvars == <<cfg, pdfs, failures, outputs, attempts, status,
             app_state, btn_start, btn_cancel, res_q, worker>>

vars == <<doc, maxPages, cancel, pc, texts, fut, count, rows, parsed, df,
          summaries, progress, block, entry, audit,
          arg_value, arg_unit, ret_qha, ret_prod, pieces, arg_page, ocr_fallbacks,
                   arg_name, ret_label,
          cfg, pdfs, failures, outputs, attempts, status,
          app_state, btn_start, btn_cancel, res_q, worker>>

-----------------------------------------------------------------------------
(* Characters and strings                                                  *)

Ch(s, i) == SubSeq(s, i, i)

Devanagari == {"~"}
Ellipsis == "^"

\* Python's str.isspace / regex \s, over the characters the model uses.
IsSpace(c) == c \in {" ", "\t", "\n", "\r"}
\* regex [^\S\r\n]: white space other than a line break.
IsBlank(c) == c \in {" ", "\t"}
IsDigit(c) == c \in {"0", "1", "2", "3", "4", "5", "6", "7", "8", "9"}

LowerOf ==
    ("A" :> "a") @@ ("B" :> "b") @@ ("C" :> "c") @@ ("D" :> "d") @@
    ("E" :> "e") @@ ("F" :> "f") @@ ("G" :> "g") @@ ("H" :> "h") @@
    ("I" :> "i") @@ ("J" :> "j") @@ ("K" :> "k") @@ ("L" :> "l") @@
    ("M" :> "m") @@ ("N" :> "n") @@ ("O" :> "o") @@ ("P" :> "p") @@
    ("Q" :> "q") @@ ("R" :> "r") @@ ("S" :> "s") @@ ("T" :> "t") @@
    ("U" :> "u") @@ ("V" :> "v") @@ ("W" :> "w") @@ ("X" :> "x") @@
    ("Y" :> "y") @@ ("Z" :> "z")

UpperOf == [c \in {LowerOf[u] : u \in DOMAIN LowerOf} |->
               CHOOSE u \in DOMAIN LowerOf : LowerOf[u] = c]

IsUpper(c) == c \in DOMAIN LowerOf
IsLower(c) == c \in DOMAIN UpperOf
IsAlpha(c) == IsUpper(c) \/ IsLower(c)
\* regex \w
IsWord(c) == IsAlpha(c) \/ IsDigit(c) \/ c = "_"

LowerCh(c) == IF IsUpper(c) THEN LowerOf[c] ELSE c
UpperCh(c) == IF IsLower(c) THEN UpperOf[c] ELSE c

\* "".join(f[lo..hi]) for a sequence f of strings
RECURSIVE JoinRange(_, _, _)
JoinRange(f, lo, hi) ==
    IF lo > hi THEN ""
    ELSE IF lo = hi THEN f[lo]
    ELSE LET mid == (lo + hi) \div 2
         IN  JoinRange(f, lo, mid) \o JoinRange(f, mid + 1, hi)
Join(f) == JoinRange(f, 1, Len(f))

\* str.lower()
Lower(s) == Join([i \in 1..Len(s) |-> LowerCh(Ch(s, i))])
\* str.upper()
Upper(s) == Join([i \in 1..Len(s) |-> UpperCh(Ch(s, i))])

\* s[i:] starts with p
StartsAt(s, i, p) == i >= 1 /\ i + Len(p) - 1 <= Len(s) /\ SubSeq(s, i, i + Len(p) - 1) = p
\* the same, ignoring letter case (re.I); p is lower case
StartsAtI(s, i, p) ==
    i >= 1 /\ i + Len(p) - 1 <= Len(s) /\ Lower(SubSeq(s, i, i + Len(p) - 1)) = p
StartsWith(s, p) == StartsAt(s, 1, p)
\* p in s
Contains(s, p) == \E i \in 1..(Len(s) - Len(p) + 1) : StartsAt(s, i, p)

\* regex \b between positions i-1 and i of s
WordBoundary(s, i) ==
    LET before == i >= 2 /\ i - 1 <= Len(s) /\ IsWord(Ch(s, i - 1))
        after  == i >= 1 /\ i <= Len(s) /\ IsWord(Ch(s, i))
    IN  before # after

\* the least of a non-empty set of integers; the greatest
Min(S) == CHOOSE x \in S : \A y \in S : x <= y
Max(S) == CHOOSE x \in S : \A y \in S : x >= y

\* the first position >= i of s that holds no white space (Len(s)+1 if none)
SkipSpace(s, i) ==
    IF i > Len(s) THEN i
    ELSE Min({j \in i..(Len(s) + 1) : j > Len(s) \/ ~IsSpace(Ch(s, j))})

\* the last position <= i of s that holds no white space (0 if none)
SkipSpaceBack(s, i) ==
    IF i < 1 THEN i
    ELSE Max({j \in 0..i : j = 0 \/ ~IsSpace(Ch(s, j))})

\* str.strip()
Strip(s) == SubSeq(s, SkipSpace(s, 1), SkipSpaceBack(s, Len(s)))

\* the first position >= i of s that holds no digit
SkipDigits(s, i) ==
    IF i > Len(s) THEN i
    ELSE Min({j \in i..(Len(s) + 1) : j > Len(s) \/ ~IsDigit(Ch(s, j))})

\* re.sub(r"\s+", " ", s)
CollapseSpace(s) ==
    Join([i \in 1..Len(s) |->
            IF ~IsSpace(Ch(s, i)) THEN Ch(s, i)
            ELSE IF i > 1 /\ IsSpace(Ch(s, i - 1)) THEN "" ELSE " "])

\* re.sub(r"[\u0900-\u097F]+", "", s)
RemoveDevanagari(s) ==
    Join([i \in 1..Len(s) |-> IF Ch(s, i) \in Devanagari THEN "" ELSE Ch(s, i)])

-----------------------------------------------------------------------------
(* extractor.py: utilities                                                 *)

\* DEVANAGARI_RANGE.sub(" ", s)
DevanagariToSpace(s) ==
    Join([i \in 1..Len(s) |-> IF Ch(s, i) \in Devanagari THEN " " ELSE Ch(s, i)])

\* re.sub(r"[^\S\r\n]+", " ", s)
CollapseBlank(s) ==
    Join([i \in 1..Len(s) |->
            IF ~IsBlank(Ch(s, i)) THEN Ch(s, i)
            ELSE IF i > 1 /\ IsBlank(Ch(s, i - 1)) THEN "" ELSE " "])

strip_non_english(s) == Strip(CollapseBlank(DevanagariToSpace(s)))

\* the first position >= i of s that holds a line break (Len(s)+1 if none)
LineEnd(s, i) ==
    IF i > Len(s) THEN i
    ELSE Min({j \in i..(Len(s) + 1) : j > Len(s) \/ Ch(s, j) \in {"\n", "\r"}})

\* str.splitlines(): lines end at \n, \r or \r\n; no empty last line
RECURSIVE SplitLinesFrom(_, _)
SplitLinesFrom(s, i) ==
    IF i > Len(s) THEN <<>>
    ELSE LET e == LineEnd(s, i)
             n == IF StartsAt(s, e, "\r\n") THEN e + 2 ELSE e + 1
         IN  <<SubSeq(s, i, e - 1)>> \o SplitLinesFrom(s, n)
SplitLines(s) == SplitLinesFrom(s, 1)

\* the loop body of clean_lines for one line: the lines it appends
CleanLine(ln0) ==
    LET ln == Strip(ln0)
    IN  IF ln = "" THEN <<>>
        ELSE IF Len(ln) < 2 /\ Lower(ln) \notin {"a", "i", "x"} THEN <<>>
        ELSE <<CollapseSpace(ln)>>

RECURSIVE CleanLinesOf(_, _)
CleanLinesOf(ls, i) ==
    IF i > Len(ls) THEN <<>> ELSE CleanLine(ls[i]) \o CleanLinesOf(ls, i + 1)

clean_lines(b) == CleanLinesOf(SplitLines(strip_non_english(b)), 1)

\* a faulty variant: a blank text is returned as it is stripped
safe_blank(s) == Strip(s)

\* safe(s) for a string s
safe(s0) == LET s == Strip(s0) IN IF s = "" THEN "NA" ELSE s

-----------------------------------------------------------------------------
(* extractor.py: knowledge bases                                           *)

CROP_WORDS == <<
    "rice", "wheat", "maize", "barley", "sorghum", "millet", "oat", "rye",
    "gram", "pigeonpea", "lentil", "blackgram", "greengram", "cowpea", "fieldpea",
    "mustard", "rapeseed", "groundnut", "sesame", "sunflower", "soybean",
    "safflower", "linseed", "castor",
    "cotton", "sugarcane", "jute", "tobacco", "tea", "coffee", "coconut",
    "tomato", "potato", "onion", "brinjal", "chilli", "okra", "cabbage",
    "cauliflower", "cucumber", "melon",
    "banana", "papaya", "pomegranate", "guava", "mango", "pear", "pearl millet",
    "bajra", "finger millet", "ragi" >>

\* in insertion order: <<abbreviation, full name>>
APPLICANT_MAP == <<
    <<"CICR", "ICAR-Central Institute for Cotton Research">>,
    <<"DRR", "ICAR-Directorate of Rice Research">>,
    <<"ICAR", "Indian Council of Agricultural Research">>,
    <<"IARI", "ICAR-Indian Agricultural Research Institute (Pusa)">>,
    <<"JNKVV", "Jawaharlal Nehru Krishi Vishwavidyalaya">>,
    <<"IGKV", "Indira Gandhi Krishi Vishwavidyalaya">>,
    <<"ANGRAU", "Acharya N G Ranga Agricultural University">>,
    <<"PAU", "Punjab Agricultural University">>,
    <<"TNAU", "Tamil Nadu Agricultural University">>,
    <<"UAS", "University of Agricultural Sciences">>,
    <<"MPKV", "Mahatma Phule Krishi Vidyapeeth (Phule/ Rahuri)">>,
    <<"BHU", "Banaras Hindu University">>,
    <<"BARC", "Bhabha Atomic Research Centre (Trombay)">>,
    <<"JNARDDC", "Jawaharlal Nehru Aluminium Research Dev & Design Centre">>,
    <<"PUSA", "ICAR-Indian Agricultural Research Institute (Pusa)">>,
    <<"JKV", "Jawahar Krishi Vishwavidyalaya">>,
    <<"JAWAHAR", "JNKVV-Jawahar">>,
    <<"CHHATTISGARH", "IGKV-Chhattisgarh Agricultural University">> >>

PUBLIC_HINTS == {
    "icar", "university", "college", "institute", "govt", "government",
    "research", "krishi", "angrau", "pau", "tnau", "uas", "jknvv", "jnkvv",
    "iari", "pusa", "barc", "igkv", "mpkv", "bhu", "gov", "component project",
    "directorate" }
PRIVATE_HINTS == {
    "pvt", "private", "limited", "ltd", "seeds", "seed", "biotech", "agro",
    "genetics", "lifecycle", "company", "industries" }
FARMER_HINTS == {"farmer", "grower"}

VARIETY_TYPE_WORDS == <<
    <<"Extant", "extant">>, <<"Notified", "notified">>,
    <<"New", "new">>, <<"Hybrid", "hybrid">> >>

-----------------------------------------------------------------------------
(* extractor.py: field classifiers                                         *)

\* a faulty variant: the public hints are looked at before the private ones
classify_applicant_type_public_first(name) ==
    LET n == Lower(name)
    IN  IF \E k \in FARMER_HINTS : Contains(n, k) THEN "Farmer"
        ELSE IF \E k \in PUBLIC_HINTS : Contains(n, k) THEN "Public / Govt"
        ELSE IF \E k \in PRIVATE_HINTS : Contains(n, k) THEN "Private Sector"
        ELSE IF name \notin {"", "NA"} THEN "Other" ELSE "NA"

classify_applicant_type(name) ==
    LET n == Lower(name)
    IN  IF \E k \in FARMER_HINTS : Contains(n, k) THEN "Farmer"
        ELSE IF \E k \in PRIVATE_HINTS : Contains(n, k) THEN "Private Sector"
        ELSE IF \E k \in PUBLIC_HINTS : Contains(n, k) THEN "Public / Govt"
        ELSE IF \E i \in 1..Len(APPLICANT_MAP) :
                    \/ Contains(n, Lower(APPLICANT_MAP[i][1]))
                    \/ Contains(n, Lower(APPLICANT_MAP[i][2]))
             THEN "Public / Govt"
        ELSE IF name \notin {"", "NA"} THEN "Other" ELSE "NA"

\* re.sub(r"[^A-Za-z]", "", s)
LettersOnly(s) ==
    Join([i \in 1..Len(s) |-> IF IsAlpha(Ch(s, i)) THEN Ch(s, i) ELSE ""])

expand_applicant(token) ==
    IF token = "" THEN "NA"
    ELSE LET token_up == LettersOnly(Upper(token))
             hits == {i \in 1..Len(APPLICANT_MAP) :
                          StartsWith(token_up, APPLICANT_MAP[i][1])}
         IN  IF hits # {}
             THEN APPLICANT_MAP[Min(hits)][2]
             ELSE token

\* a faulty variant: the keyword that stands first in the block wins
detect_variety_type_by_position(b0) ==
    LET b == Lower(b0)
        at(i) == {p \in 1..Len(b) : StartsAt(b, p, VARIETY_TYPE_WORDS[i][2])}
        hits == {i \in 1..Len(VARIETY_TYPE_WORDS) : at(i) # {}}
    IN  IF hits = {} THEN "NA"
        ELSE VARIETY_TYPE_WORDS[
                 CHOOSE i \in hits : \A j \in hits : Min(at(i)) <= Min(at(j))][1]

detect_variety_type(b0) ==
    LET b == Lower(b0)
        hits == {i \in 1..Len(VARIETY_TYPE_WORDS) :
                     Contains(b, VARIETY_TYPE_WORDS[i][2])}
    IN  IF hits # {}
        THEN VARIETY_TYPE_WORDS[Min(hits)][1]
        ELSE "NA"

\* str.capitalize()
Capitalize(w) ==
    IF w = "" THEN "" ELSE UpperCh(Ch(w, 1)) \o Lower(SubSeq(w, 2, Len(w)))

\* re.search(r"\b(<dot>|<word>)\s*cotton\b", b) with <dot> = "t." / "d."
PloidyCotton(b, dot, word) ==
    \E i \in 1..Len(b) :
        /\ WordBoundary(b, i)
        /\ \E p \in {dot, word} :
              /\ StartsAt(b, i, p)
              /\ LET c == SkipSpace(b, i + Len(p))
                 IN  StartsAt(b, c, "cotton") /\ WordBoundary(b, c + 6)

infer_crop(b0) ==
    LET b == " " \o Lower(b0) \o " "
        hits == {i \in 1..Len(CROP_WORDS) : Contains(b, " " \o CROP_WORDS[i] \o " ")}
    IN  IF hits # {}
        THEN Capitalize(CROP_WORDS[Min(hits)])
        ELSE IF PloidyCotton(b, "t.", "tetraploid") THEN "Cotton"
        ELSE IF PloidyCotton(b, "d.", "diploid") THEN "Cotton"
        ELSE "NA"

\* re.search(r"<c>\.\s*cotton", b)
DotCotton(b, c) ==
    \E i \in 1..Len(b) :
        StartsAt(b, i, c \o ".") /\ StartsAt(b, SkipSpace(b, i + 2), "cotton")

\* re.search(r"g.*arboreum", b): "." matches anything but "\n"
GArboreum(b) ==
    \E i \in 1..Len(b) : \E j \in (i + 1)..Len(b) :
        /\ Ch(b, i) = "g"
        /\ StartsAt(b, j, "arboreum")
        /\ \A k \in (i + 1)..(j - 1) : Ch(b, k) # "\n"

\* COTTON_TAXA[0][1] and COTTON_TAXA[1][1], searched in b
TetraploidMarker(b) ==
    \/ Contains(b, "tetraploid cotton")
    \/ DotCotton(b, "t")
    \/ Contains(b, "g. hirsutum")
    \/ Contains(b, "gossypium hirsutum")
DiploidMarker(b) ==
    \/ Contains(b, "diploid cotton")
    \/ DotCotton(b, "d")
    \/ GArboreum(b)
    \/ Contains(b, "gossypium arboreum")

\* a faulty variant: the patterns are tried whatever the crop is
detect_taxonomy_any_crop(b0, crop) ==
    LET b == Lower(b0)
    IN  IF TetraploidMarker(b) THEN "Tetraploid Cotton"
        ELSE IF DiploidMarker(b) THEN "Diploid Cotton"
        ELSE "NA"

detect_taxonomy(b0, crop) ==
    IF crop # "Cotton" THEN "NA"
    ELSE LET b == Lower(b0)
         IN  IF TetraploidMarker(b) THEN "Tetraploid Cotton"
             ELSE IF DiploidMarker(b) THEN "Diploid Cotton"
             ELSE "NA"

-----------------------------------------------------------------------------
(* Numbers: Python floats as exact rationals <<num, den>>, den > 0.        *)
(* Within the numerals the model reads (a few digits) the comparisons and  *)
(* the formatting below agree with the double arithmetic of the code; a    *)
(* value exactly halfway between two hundredths is rounded to even here.   *)

DigitVal(c) == CHOOSE d \in 0..9 : Ch("0123456789", d + 1) = c

RECURSIVE DigitsValue(_, _, _)
DigitsValue(s, i, acc) ==
    IF i > Len(s) THEN acc ELSE DigitsValue(s, i + 1, 10 * acc + DigitVal(Ch(s, i)))

RECURSIVE Pow10(_)
Pow10(k) == IF k = 0 THEN 1 ELSE 10 * Pow10(k - 1)

RECURSIVE IntToStr(_)
IntToStr(n) ==
    IF n < 10 THEN Ch("0123456789", n + 1)
    ELSE IntToStr(n \div 10) \o Ch("0123456789", (n % 10) + 1)

\* float(s) for s = digits or digits.digits
DecimalValue(s) ==
    LET e == SkipDigits(s, 1)
    IN  IF e > Len(s) THEN <<DigitsValue(s, 1, 0), 1>>
        ELSE <<DigitsValue(SubSeq(s, 1, e - 1) \o SubSeq(s, e + 1, Len(s)), 1, 0),
               Pow10(Len(s) - e)>>

\* a faulty variant: the bounds are excluded
InRangeOpen(v, lo, hi) == lo * v[2] < v[1] /\ v[1] < hi * v[2]

\* lo <= v <= hi
InRange(v, lo, hi) == lo * v[2] <= v[1] /\ v[1] <= hi * v[2]

\* the digits of n, left-padded with zeros to k places
RECURSIVE PadDigits(_, _)
PadDigits(n, k) ==
    IF k = 0 THEN "" ELSE PadDigits(n \div 10, k - 1) \o Ch("0123456789", (n % 10) + 1)

\* a fraction's digits without trailing zeros; never empty
RECURSIVE TrimZeros(_)
TrimZeros(f) ==
    IF Len(f) > 1 /\ Ch(f, Len(f)) = "0" THEN TrimZeros(SubSeq(f, 1, Len(f) - 1)) ELSE f

\* repr() of the float n / 10^k (n >= 0, k >= 0)
FloatRepr(n, k) ==
    IntToStr(n \div Pow10(k)) \o "." \o
    (IF k = 0 THEN "0" ELSE TrimZeros(PadDigits(n % Pow10(k), k)))

\* round(v, 2), in hundredths
Round2(v) ==
    LET a == 100 * v[1]
        q == a \div v[2]
        r == a % v[2]
    IN  IF 2 * r < v[2] THEN q
        ELSE IF 2 * r > v[2] THEN q + 1
        ELSE IF q % 2 = 0 THEN q ELSE q + 1

\* str.replace(" ", "")
RemoveSpaces(s) ==
    Join([i \in 1..Len(s) |-> IF Ch(s, i) = " " THEN "" ELSE Ch(s, i)])

\* a faulty variant: the unit is compared as it is written
normalize_units_cased(value, unit0) ==
    LET unit == IF unit0 = "" THEN "q/ha" ELSE unit0
    IN  IF unit \in {"q/ha", "quintal/ha", "quintals/ha", "quintalperhectare"}
            THEN value
        ELSE IF unit \in {"t/ha", "ton/ha", "tons/ha", "tonnes/ha"}
            THEN <<value[1] * 10, value[2]>>
        ELSE IF unit \in {"kg/ha", "kgs/ha", "kilogram/ha"}
            THEN <<value[1], value[2] * 100>>
        ELSE IF unit \in {"q/acre", "quintal/acre", "quintals/acre"}
            THEN <<value[1] * 247, value[2] * 100>>
        ELSE IF unit \in {"t/acre", "ton/acre", "tons/acre"}
            THEN <<value[1] * 247, value[2] * 10>>
        ELSE IF unit \in {"kg/acre", "kgs/acre"}
            THEN <<value[1] * 100, value[2] * 4047>>
        ELSE value

normalize_units(value, unit0) ==
    LET unit == RemoveSpaces(Lower(IF unit0 = "" THEN "q/ha" ELSE unit0))
    IN  IF unit \in {"q/ha", "quintal/ha", "quintals/ha", "quintalperhectare"}
            THEN value
        ELSE IF unit \in {"t/ha", "ton/ha", "tons/ha", "tonnes/ha"}
            THEN <<value[1] * 10, value[2]>>
        ELSE IF unit \in {"kg/ha", "kgs/ha", "kilogram/ha"}
            THEN <<value[1], value[2] * 100>>
        ELSE IF unit \in {"q/acre", "quintal/acre", "quintals/acre"}
            THEN <<value[1] * 247, value[2] * 100>>
        ELSE IF unit \in {"t/acre", "ton/acre", "tons/acre"}
            THEN <<value[1] * 247, value[2] * 10>>
        ELSE IF unit \in {"kg/acre", "kgs/acre"}
            THEN <<value[1] * 100, value[2] * 4047>>
        ELSE value

\* the unit alternatives of the Tier 1 pattern, in the pattern's order
PROD_UNITS == <<"q/ha", "t/ha", "tons/ha", "ton/ha", "kg/ha", "q/acre", "t/acre", "kg/acre">>

\* the end of \d+(?:\.\d+)? matched at p (p holds a digit)
NumberEnd(b, p) ==
    LET e == SkipDigits(b, p)
    IN  IF StartsAt(b, e, ".") /\ e + 1 <= Len(b) /\ IsDigit(Ch(b, e + 1))
        THEN SkipDigits(b, e + 1) ELSE e

\* the Tier 1 pattern matched at p: <<number, unit, end>>, or <<>> if no match
ProdMatchAt(b, p) ==
    IF ~(p <= Len(b) /\ IsDigit(Ch(b, p))) THEN <<>>
    ELSE LET e == NumberEnd(b, p)
             u == SkipSpace(b, e)
             hits == {i \in 1..Len(PROD_UNITS) : StartsAtI(b, u, PROD_UNITS[i])}
         IN  IF hits = {} THEN <<>>
             ELSE LET k == Min(hits)
                      ue == u + Len(PROD_UNITS[k])
                  IN  <<SubSeq(b, p, e - 1), SubSeq(b, u, ue - 1), ue>>

\* a faulty variant: the first match is taken
FirstProdMatch(b) ==
    LET starts == {p \in 1..Len(b) : ProdMatchAt(b, p) # <<>>}
    IN  IF starts = {} THEN <<>> ELSE ProdMatchAt(b, Min(starts))

\* m[-1] of list(re.finditer(pat, b, flags=re.I)), or <<>> when the list is
\* empty.  A match ends with its unit, so two matches that overlap end at the
\* same place and the scan reports the one that starts first: the last match
\* is the leftmost start among the matches that end last.
LastProdMatch(b) ==
    LET starts == {p \in 1..Len(b) : ProdMatchAt(b, p) # <<>>}
    IN  IF starts = {} THEN <<>>
        ELSE LET last == Max({ProdMatchAt(b, p)[3] : p \in starts})
             IN  ProdMatchAt(b, Min({p \in starts : ProdMatchAt(b, p)[3] = last}))

\* re.fullmatch(r"\d{1,3}(?:\.\d+)?", ln)
LoneNumber(ln) ==
    LET e == SkipDigits(ln, 1)
    IN  /\ e >= 2 /\ e <= 4
        /\ \/ e > Len(ln)
           \/ /\ Ch(ln, e) = "."
              /\ e + 1 <= Len(ln)
              /\ SkipDigits(ln, e + 1) > Len(ln)

\* a faulty variant: Tier 2 takes the first lone number, in range or not
RECURSIVE Tier2AnyNumber(_, _)
Tier2AnyNumber(ls, i) ==
    IF i > Len(ls) THEN <<"NA", "Low">>
    ELSE IF LoneNumber(ls[i])
         THEN <<FloatRepr(DecimalValue(ls[i])[1],
                          IF SkipDigits(ls[i], 1) > Len(ls[i]) THEN 0
                          ELSE Len(ls[i]) - SkipDigits(ls[i], 1)) \o " q/ha",
                "Medium">>
         ELSE Tier2AnyNumber(ls, i + 1)

\* the Tier 2 loop over lines ls from index i on
RECURSIVE Tier2(_, _)
Tier2(ls, i) ==
    IF i > Len(ls) THEN <<"NA", "Low">>
    ELSE IF LoneNumber(ls[i]) /\ InRange(DecimalValue(ls[i]), 5, 150)
         THEN LET v == DecimalValue(ls[i])
                  k == IF SkipDigits(ls[i], 1) > Len(ls[i]) THEN 0
                       ELSE Len(ls[i]) - SkipDigits(ls[i], 1)
              IN  <<FloatRepr(v[1], k) \o " q/ha", "Medium">>
         ELSE Tier2(ls, i + 1)

\* lines[-5:]
LastFive(ls) == IF Len(ls) <= 5 THEN ls ELSE SubSeq(ls, Len(ls) - 4, Len(ls))

detect_productivity(b0) ==
    LET b == strip_non_english(b0)
        m == LastProdMatch(b)
        qha == normalize_units(DecimalValue(m[1]), m[2])
    IN  IF m # <<>> /\ InRange(qha, 5, 150)
        THEN <<FloatRepr(Round2(qha), 2) \o " q/ha", "High">>
        ELSE Tier2(LastFive(clean_lines(b)), 1)

-----------------------------------------------------------------------------
(* extractor.py: name, applicant, charter, Block -> Entry                  *)

\* re.search(r"\((?!Notified|Extant|New)[^)]+\)", s)
ParenCode(s) ==
    \E i \in 1..Len(s) : \E j \in (i + 2)..Len(s) :
        /\ Ch(s, i) = "("
        /\ Ch(s, j) = ")"
        /\ \A k \in (i + 1)..(j - 1) : Ch(s, k) # ")"
        /\ ~StartsAt(s, i + 1, "Notified")
        /\ ~StartsAt(s, i + 1, "Extant")
        /\ ~StartsAt(s, i + 1, "New")

\* re.search(r"[.:;]$", s), s holding no line break
EndsWithPunct(s) == Len(s) >= 1 /\ Ch(s, Len(s)) \in {".", ":", ";"}

extract_variety_name(lines) ==
    IF lines = <<>> THEN "NA"
    ELSE IF Len(lines) >= 2 /\ ParenCode(lines[2]) /\ Len(lines[2]) < 50
        THEN Strip(lines[1] \o " " \o lines[2])
    ELSE IF Len(lines) >= 2 /\ Len(lines[2]) <= 30 /\ ~EndsWithPunct(lines[1])
        THEN Strip(lines[1] \o " " \o lines[2])
    ELSE Strip(lines[1])

\* the first position >= i of s that holds white space (Len(s)+1 if none)
SkipNonSpace(s, i) ==
    IF i > Len(s) THEN i
    ELSE Min({j \in i..(Len(s) + 1) : j > Len(s) \/ IsSpace(Ch(s, j))})

\* s.split()[0], s holding a character that is no white space
FirstToken(s) ==
    LET a == SkipSpace(s, 1) IN SubSeq(s, a, SkipNonSpace(s, a) - 1)

\* what an operation yields when the code raises there: lines[0].split()[0]
\* of a line without a token, and a division by zero
IndexError == "<IndexError>"
ZeroDivisionError == "<ZeroDivisionError>"
\* the result of a function left by an exception
Raised(e) == [raised |-> e]
HasRaised(r) == "raised" \in DOMAIN r

infer_applicant_from_header(lines) ==
    IF lines = <<>> THEN "NA"
    ELSE IF Strip(lines[1]) = "" THEN IndexError
    ELSE LET token == LettersOnly(FirstToken(lines[1]))
         IN  IF token # "" THEN expand_applicant(token) ELSE "NA"

\* one alternative of the charter pattern matched at i, ignoring case:
\* w1 alone, or w1 \s+ w2; the position after it, or 0
TriggerEnd(b, i, w1, w2) ==
    IF ~StartsAtI(b, i, w1) THEN 0
    ELSE IF w2 = "" THEN i + Len(w1)
    ELSE LET c == SkipSpace(b, i + Len(w1))
         IN  IF c > i + Len(w1) /\ StartsAtI(b, c, w2) THEN c + Len(w2) ELSE 0

CHARTER_TRIGGERS == <<
    <<"resistant", "">>, <<"tolerant", "">>, <<"suitable", "">>,
    <<"high", "yield">>, <<"early", "maturity">>, <<"drought", "">>,
    <<"flood", "">> >>

\* the end of (resistant|...|flood)\b matched at i, or 0
CharterAt(b, i) ==
    LET hits == {k \in 1..Len(CHARTER_TRIGGERS) :
                    LET e == TriggerEnd(b, i, CHARTER_TRIGGERS[k][1], CHARTER_TRIGGERS[k][2])
                    IN  e > 0 /\ WordBoundary(b, e)}
    IN  IF hits = {} THEN 0
        ELSE LET k == Min(hits)
             IN  TriggerEnd(b, i, CHARTER_TRIGGERS[k][1], CHARTER_TRIGGERS[k][2])

\* the first position >= i of s that holds "\n" (Len(s)+1 if none)
NewlineFrom(s, i) ==
    IF i > Len(s) THEN i
    ELSE Min({j \in i..(Len(s) + 1) : j > Len(s) \/ Ch(s, j) = "\n"})

\* the charter hint of parse_taxonomy_charter
CharterHint(b) ==
    LET starts == {i \in 1..Len(b) : CharterAt(b, i) > 0}
    IN  IF starts = {} THEN "NA"
        ELSE LET i == Min(starts)
                 g == SubSeq(b, i, NewlineFrom(b, CharterAt(b, i)) - 1)
                 charter == CollapseSpace(Strip(g))
             IN  IF Len(charter) > 100
                 THEN SubSeq(charter, 1, 100) \o Ellipsis ELSE charter

\* <<taxonomy, charter>>
parse_taxonomy_charter(b) ==
    <<detect_taxonomy(b, infer_crop(b)), CharterHint(b)>>

parse_block(block0) ==
    LET b == strip_non_english(block0)
        lines == clean_lines(b)
        init == [Variety_Name |-> "NA", Crop |-> "NA", Variety_Type |-> "NA",
                 Applicant |-> "NA", Applicant_Type |-> "NA",
                 Charter_of_Crop |-> "NA", Taxonomy |-> "NA",
                 Productivity |-> "NA", Productivity_Confidence |-> "Low",
                 Distinctiveness |-> "NA", Developer_or_Breeder |-> "NA",
                 Block_Text |-> safe(b)]
    IN  IF lines = <<>> THEN init
        ELSE LET prod == detect_productivity(b)
                 applicant == infer_applicant_from_header(lines)
                 tc == parse_taxonomy_charter(b)
             IN  IF applicant = IndexError THEN Raised(IndexError) ELSE
                 [init EXCEPT
                    !.Variety_Name = extract_variety_name(lines),
                    !.Crop = infer_crop(b),
                    !.Variety_Type = detect_variety_type(b),
                    !.Productivity = prod[1],
                    !.Productivity_Confidence = prod[2],
                    !.Applicant = applicant,
                    !.Developer_or_Breeder = applicant,
                    !.Applicant_Type = classify_applicant_type(applicant),
                    !.Taxonomy = tc[1],
                    !.Charter_of_Crop = tc[2]]

-----------------------------------------------------------------------------
(* extractor.py: page text -> entries                                      *)

\* the length a block must reach, after trimming, to be parsed
MIN_BLOCK_LEN == 15

\* a faulty variant: the anchor is matched in upper case only
AnchorEndCased(t, p) ==
    IF /\ StartsAt(t, p, "REG/")
       /\ p + 9 <= Len(t)
       /\ \A k \in (p + 4)..(p + 7) : IsDigit(Ch(t, k))
       /\ Ch(t, p + 8) = "/"
       /\ IsDigit(Ch(t, p + 9))
    THEN SkipDigits(t, p + 9) ELSE 0

\* the anchor REG/\d{4}/\d+ (re.I) matched at p: the position after it, or 0
AnchorEnd(t, p) ==
    IF /\ StartsAtI(t, p, "reg/")
       /\ p + 9 <= Len(t)
       /\ \A k \in (p + 4)..(p + 7) : IsDigit(Ch(t, k))
       /\ Ch(t, p + 8) = "/"
       /\ IsDigit(Ch(t, p + 9))
    THEN SkipDigits(t, p + 9) ELSE 0

\* the first anchor of t at or after p: its position, or 0
NextAnchor(t, p) ==
    LET at == {q \in p..Len(t) : AnchorEnd(t, q) > 0}
    IN  IF at = {} THEN 0 ELSE Min(at)

\* the loop of parse_entries_from_text from the anchor at position a on
RECURSIVE EntriesFrom(_, _)
EntriesFrom(t, a) ==
    IF a = 0 THEN <<>>
    ELSE LET e == AnchorEnd(t, a)
             n == NextAnchor(t, e)
             reg_no == Strip(SubSeq(t, a, e - 1))
             blk == SubSeq(t, e, IF n = 0 THEN Len(t) ELSE n - 1)
         IN  (IF Len(Strip(blk)) < MIN_BLOCK_LEN THEN <<>>
              ELSE <<parse_block(blk) @@ [Reg_No |-> reg_no]>>)
             \o EntriesFrom(t, n)

\* the list of entries; an element Raised(e) stands for parse_block raising
\* e for that block, which leaves parse_entries_from_text as well
parse_entries_from_text(text) ==
    LET t == strip_non_english(text) IN EntriesFrom(t, NextAnchor(t, 1))

-----------------------------------------------------------------------------
(* extractor.py: audits                                                    *)

\* str.replace("q/ha", "")
RemoveQha(s) ==
    Join([i \in 1..Len(s) |->
            IF \E k \in 0..3 : StartsAt(s, i - k, "q/ha") THEN "" ELSE Ch(s, i)])

\* s is a decimal numeral float() accepts: [+-]? (digits [. digits*] | . digits)
IsDecimal(s0) ==
    LET s == IF Len(s0) >= 1 /\ Ch(s0, 1) \in {"+", "-"} THEN SubSeq(s0, 2, Len(s0)) ELSE s0
        e == SkipDigits(s, 1)
    IN  /\ Len(s) >= 1
        /\ \/ e > Len(s)
           \/ /\ Ch(s, e) = "."
              /\ SkipDigits(s, e + 1) > Len(s)
              /\ Len(s) >= 2

\* the value of a decimal numeral, as a rational
SignedDecimalValue(s0) ==
    LET neg == Ch(s0, 1) = "-"
        s == IF Ch(s0, 1) \in {"+", "-"} THEN SubSeq(s0, 2, Len(s0)) ELSE s0
        e == SkipDigits(s, 1)
        digits == SubSeq(s, 1, e - 1) \o SubSeq(s, e + 1, Len(s))
        k == IF e > Len(s) THEN 0 ELSE Len(s) - e
        v == <<DigitsValue(digits, 1, 0), Pow10(k)>>
    IN  IF neg THEN <<0 - v[1], v[2]>> ELSE v

\* float() accepts these as well; none lies within [5, 150]
IsNanOrInf(s0) ==
    LET s == IF Len(s0) >= 1 /\ Ch(s0, 1) \in {"+", "-"} THEN SubSeq(s0, 2, Len(s0)) ELSE s0
    IN  Lower(s) \in {"nan", "inf", "infinity"}

\* a faulty variant: the bounds 5 and 150 are out of range
ProductivityFlagsOpen(prod) ==
    IF prod = "NA" THEN <<"productivity_missing">>
    ELSE LET txt == Strip(RemoveQha(prod))
         IN  IF IsDecimal(txt)
             THEN (IF InRangeOpen(SignedDecimalValue(txt), 5, 150) THEN <<>>
                   ELSE <<"productivity_out_of_range">>)
             ELSE IF IsNanOrInf(txt) THEN <<"productivity_out_of_range">>
             ELSE <<"productivity_unparsable">>

\* the flags the productivity rules append
ProductivityFlags(prod) ==
    IF prod = "NA" THEN <<"productivity_missing">>
    ELSE LET txt == Strip(RemoveQha(prod))
         IN  IF IsDecimal(txt)
             THEN (IF InRange(SignedDecimalValue(txt), 5, 150) THEN <<>>
                   ELSE <<"productivity_out_of_range">>)
             ELSE IF IsNanOrInf(txt) THEN <<"productivity_out_of_range">>
             ELSE <<"productivity_unparsable">>

\* ",".join(flags)
RECURSIVE JoinComma(_)
JoinComma(flags) ==
    IF Len(flags) = 1 THEN flags[1] ELSE flags[1] \o "," \o JoinComma(Tail(flags))

\* a faulty variant: an unknown crop raises no flag
_row_audit_flags_nocrop(r) ==
    LET flags ==
            (IF r.Variety_Name \in {"NA", ""} THEN <<"no_variety_name">> ELSE <<>>)
         \o (IF r.Variety_Type = "NA" THEN <<"variety_type_missing">> ELSE <<>>)
         \o ProductivityFlags(r.Productivity)
         \o (IF r.Applicant = "NA" THEN <<"applicant_missing">> ELSE <<>>)
         \o (IF r.Crop = "Cotton" /\ r.Taxonomy = "NA"
             THEN <<"cotton_taxonomy_unknown">> ELSE <<>>)
    IN  IF flags = <<>> THEN "OK" ELSE JoinComma(flags)

_row_audit_flags(r) ==
    LET flags ==
            (IF r.Variety_Name \in {"NA", ""} THEN <<"no_variety_name">> ELSE <<>>)
         \o (IF r.Crop = "NA" THEN <<"crop_unknown">> ELSE <<>>)
         \o (IF r.Variety_Type = "NA" THEN <<"variety_type_missing">> ELSE <<>>)
         \o ProductivityFlags(r.Productivity)
         \o (IF r.Applicant = "NA" THEN <<"applicant_missing">> ELSE <<>>)
         \o (IF r.Crop = "Cotton" /\ r.Taxonomy = "NA"
             THEN <<"cotton_taxonomy_unknown">> ELSE <<>>)
    IN  IF flags = <<>> THEN "OK" ELSE JoinComma(flags)

-----------------------------------------------------------------------------
(* Documents.  A page is what the PDF library and the OCR engine yield for *)
(* it: the embedded text, the text the OCR engine reads from the rendered  *)
(* page, and the stage of ocr_page that fails for it ("" if none).         *)

PAGES ==
    [ typeset |->
        [digital |-> "REG/2020/1\nPusa Basmati 1\n(IET 10000)\nRice\nNotified\n45 q/ha\nREG/2020/2\nCICR Suraj\nTetraploid cotton hybrid\n1.8 t/ha resistant to bollworm\nREG/2020/1\nPAU 343\nNew wheat variety\n52 q/ha\n",
         ocr |-> "REG/2020/9\nsmudged copy of the typeset page\n",
         fails |-> ""],
      scan |->
        [digital |-> "",
         ocr |-> " REG/2020/2\nMahyco Seeds Ltd\nHybrid maize 61 q/ha\nREG/2020/3\nKisan ~~ grower selection\nExtant rice\n72\n",
         fails |-> ""],
      noise |->
        [digital |-> "~~ 12 ~~",
         ocr |-> "~~~ REG/2020/4 tiny\nREG/2020/5\n",
         fails |-> ""],
      torn |->
        [digital |-> "",
         ocr |-> "",
         fails |-> "render"] ]

PageKinds == DOMAIN PAGES

\* the longest document of the model
MaxPages == 3

RECURSIVE SeqsUpTo(_, _)
SeqsUpTo(S, n) ==
    IF n = 0 THEN {<<>>}
    ELSE LET shorter == SeqsUpTo(S, n - 1)
         IN  shorter \cup {Append(q, x) : q \in {r \in shorter : Len(r) = n - 1}, x \in S}

Documents == SeqsUpTo(PageKinds, MaxPages)

\* the values of cfg.MAX_PAGES
MaxPagesChoices == {<<>>} \cup {<<n>> : n \in 0..MaxPages}

-----------------------------------------------------------------------------
(* ocr_utils.py                                                            *)

\* the least length of embedded text hybrid_extract_text takes as it is
MIN_DIGITAL_LEN == 150
\* cfg.THREADS
THREADS == 2

\* the text of the exception a failing stage raises
ErrorText(stage) == stage \o " failed"

\* a faulty variant: a failing stage leaves the page without text
ocr_page_unmarked(page) ==
    IF page.fails # "" THEN "" ELSE Strip(RemoveDevanagari(page.ocr))

ocr_page(page) ==
    IF page.fails # "" THEN "[OCR ERROR: " \o ErrorText(page.fails) \o "]"
    ELSE Strip(RemoveDevanagari(page.ocr))

\* a faulty variant: the embedded text is filtered first and trimmed last
DigitalTextTrimLast(page) == Strip(RemoveDevanagari(page.digital))

\* page.get_text("text").strip(), then the Devanagari runs removed
DigitalText(page) == RemoveDevanagari(Strip(page.digital))

\* len(text) < 150: hybrid_extract_text calls ocr_page
NeedsOcr(page) == Len(DigitalText(page)) < MIN_DIGITAL_LEN

\* the loop body of hybrid_extract_text for one page: the text it appends
HybridText(page) ==
    IF NeedsOcr(page) THEN ocr_page(page) ELSE DigitalText(page)

\* len(pages) of ocr_document
SelectedCount(mp, total) ==
    IF mp = <<>> THEN total ELSE IF mp[1] < total THEN mp[1] ELSE total

-----------------------------------------------------------------------------
(* extractor.py: the table and the summaries.  A table is its column names *)
(* in order and its rows, each row a record over the columns.              *)

REQUIRED == <<
    "Reg_No", "Variety_Name", "Crop", "Variety_Type", "Applicant",
    "Applicant_Type", "Charter_of_Crop", "Taxonomy", "Productivity",
    "Productivity_Confidence", "Distinctiveness", "Developer_or_Breeder",
    "Page_Number", "Block_Text" >>

Range(q) == {q[i] : i \in 1..Len(q)}

\* pd.DataFrame(rows): the columns are the keys of the rows
DataFrame(rs) ==
    [columns |-> IF rs = <<>> THEN {} ELSE UNION {DOMAIN rs[i] : i \in 1..Len(rs)},
     rows |-> rs]

\* a faulty variant: a column no row carries is not added
SelectPresent(f) ==
    [columns |-> SelectSeq(REQUIRED, LAMBDA c : c \in f.columns),
     rows |-> [i \in 1..Len(f.rows) |->
                 [c \in Range(REQUIRED) |->
                     IF c \in DOMAIN f.rows[i] THEN f.rows[i][c] ELSE "NA"]]]

\* for c in required: if c not in df.columns: df[c] = "NA"; then df[required].
\* A column of the frame that a row does not carry is a null cell of that row:
\* the row record has no such field.
SelectRequired(f) ==
    [columns |-> REQUIRED,
     rows |-> [i \in 1..Len(f.rows) |->
                 [c \in {d \in Range(REQUIRED) : d \notin f.columns \/ d \in DOMAIN f.rows[i]} |->
                     IF c \in f.columns THEN f.rows[i][c] ELSE "NA"]]]

\* a faulty variant: of the rows sharing a Reg_No the last one is kept
RECURSIVE KeepLast(_, _)
KeepLast(rs, i) ==
    IF i > Len(rs) THEN <<>>
    ELSE (IF \E j \in (i + 1)..Len(rs) : rs[j].Reg_No = rs[i].Reg_No THEN <<>> ELSE <<rs[i]>>)
         \o KeepLast(rs, i + 1)

\* the rows of rs from index i on whose Reg_No no earlier row of rs carries
RECURSIVE KeepFirst(_, _)
KeepFirst(rs, i) ==
    IF i > Len(rs) THEN <<>>
    ELSE (IF \E j \in 1..(i - 1) : rs[j].Reg_No = rs[i].Reg_No THEN <<>> ELSE <<rs[i]>>)
         \o KeepFirst(rs, i + 1)

\* drop_duplicates(subset=["Reg_No"]).reset_index(drop=True)
drop_duplicates(f) == [f EXCEPT !.rows = KeepFirst(f.rows, 1)]

\* a faulty variant: the audit column is put in front of the others
WithAuditFlagsFirst(f) ==
    [columns |-> <<"Audit_Flags">> \o f.columns,
     rows |-> [i \in 1..Len(f.rows) |->
                 f.rows[i] @@ [Audit_Flags |-> _row_audit_flags(f.rows[i])]]]

\* df["Audit_Flags"] = df.apply(_row_audit_flags, axis=1)
WithAuditFlags(f) ==
    [columns |-> Append(f.columns, "Audit_Flags"),
     rows |-> [i \in 1..Len(f.rows) |->
                 f.rows[i] @@ [Audit_Flags |-> _row_audit_flags(f.rows[i])]]]

\* the code point of a printable ASCII character (a TLA+ string cannot hold
\* the grave accent, code point 96)
ASCII_32_95 == " !\"#$%&'()*+,-./0123456789:;<=>?@ABCDEFGHIJKLMNOPQRSTUVWXYZ[\\]^_"
ASCII_97_126 == "abcdefghijklmnopqrstuvwxyz{|}~"
Ord(c) ==
    IF \E k \in 1..Len(ASCII_32_95) : Ch(ASCII_32_95, k) = c
    THEN 31 + (CHOOSE k \in 1..Len(ASCII_32_95) : Ch(ASCII_32_95, k) = c)
    ELSE 96 + (CHOOSE k \in 1..Len(ASCII_97_126) : Ch(ASCII_97_126, k) = c)

\* a < b for strings
StrLess(a, b) ==
    \E i \in 1..Len(b) :
        /\ i - 1 <= Len(a)
        /\ SubSeq(a, 1, i - 1) = SubSeq(b, 1, i - 1)
        /\ (i > Len(a) \/ Ord(Ch(a, i)) < Ord(Ch(b, i)))

\* the strings of set S in ascending order
RECURSIVE SortedStrings(_)
SortedStrings(S) ==
    IF S = {} THEN <<>>
    ELSE LET m == CHOOSE x \in S : \A y \in S \ {x} : StrLess(x, y)
         IN  <<m>> \o SortedStrings(S \ {m})

\* a faulty variant: the groups stay in the order of their keys
SortByKey(t) == t

\* sort_values("Count", ascending=False) of a short table: equal counts keep
\* their order
RECURSIVE SortByCountDesc(_)
SortByCountDesc(t) ==
    IF t = <<>> THEN <<>>
    ELSE LET k == Min({i \in 1..Len(t) : \A j \in 1..Len(t) : t[i][2] >= t[j][2]})
         IN  <<t[k]>> \o SortByCountDesc(SubSeq(t, 1, k - 1) \o SubSeq(t, k + 1, Len(t)))

\* df.groupby(col)["Reg_No"].count().reset_index(name="Count")
\*   .sort_values("Count", ascending=False): a sequence of <<group, count>>
GroupCount(f, col) ==
    LET keys == SortedStrings({f.rows[i][col] : i \in 1..Len(f.rows)})
    IN  SortByCountDesc(
            [k \in 1..Len(keys) |->
                <<keys[k], Cardinality({i \in 1..Len(f.rows) : f.rows[i][col] = keys[k]})>>])

\* steps 3 and 4 of extract_to_dataframe
BuildTable(rs) == WithAuditFlags(drop_duplicates(SelectRequired(DataFrame(rs))))

\* step 5 of extract_to_dataframe
BuildSummaries(f) ==
    IF f.rows = <<>> THEN <<>>
    ELSE [Summary_Crop |-> GroupCount(f, "Crop"),
          Summary_Applicant_Type |-> GroupCount(f, "Applicant_Type"),
          Summary_Variety_Type |-> GroupCount(f, "Variety_Type")]

-----------------------------------------------------------------------------
(* extract_to_dataframe, with hybrid_extract_text as it calls it.  cancel_cb *)
(* reads a flag that the Cancel button sets and nothing clears while the run *)
(* lasts.                                                                    *)

\* a faulty variant: the fraction counts the pages before the one at hand
ProgressCallBefore(num, den, page, stage) ==
    [frac |-> <<num - 1, den>>, page |-> page, stage |-> stage]

\* a progress_cb call: the fraction num/den and the info dictionary
ProgressCall(num, den, page, stage) ==
    [frac |-> <<num, den>>, page |-> page, stage |-> stage]

\* the variables a function that is not running leaves alone
NoOcrDocument == fut = <<>> /\ count = 0
NoBlock == block = "" /\ entry = <<>> /\ audit = ""
NoPage == arg_page = <<>> /\ ocr_fallbacks = 0
NoLabel == arg_name = "" /\ ret_label = ""
AppState(files) ==
    [files |-> files, running |-> FALSE, cancel_requested |-> FALSE,
     total_jobs |-> 0, completed_jobs |-> 0]
NoBatch ==
    /\ cfg = <<>> /\ pdfs = <<>> /\ failures = 0 /\ outputs = <<>>
    /\ attempts = <<>> /\ status = <<>>
NoWindow ==
    /\ app_state = AppState(<<>>)
    /\ btn_start = "normal" /\ btn_cancel = "disabled"
    /\ res_q = <<>> /\ worker = <<>>
NoFunctionCall ==
    /\ arg_value = <<>> /\ arg_unit = "" /\ ret_qha = <<>> /\ ret_prod = <<>> /\ pieces = <<>>
    /\ NoPage /\ NoLabel
NoTable == rows = <<>> /\ parsed = 0 /\ df = <<>> /\ summaries = <<>>

Init ==
    /\ doc \in Documents
    /\ maxPages \in MaxPagesChoices
    /\ cancel = FALSE
    /\ pc = "read"
    /\ texts = <<>>
    /\ progress = <<>>
    /\ NoTable /\ NoOcrDocument /\ NoBlock /\ NoFunctionCall
    /\ NoBatch /\ NoWindow

\* on_cancel of the window: the flag cancel_cb reads becomes true
RequestCancel ==
    /\ pc \in {"read", "parse"}
    /\ ~cancel
    /\ cancel' = TRUE
    /\ UNCHANGED <<doc, maxPages, pc, texts, fut, count, rows, parsed, df,
                   summaries, progress, block, entry, audit>>
    /\ UNCHANGED funvars
    /\ UNCHANGED appvars

\* one pass of the loop of hybrid_extract_text
ReadPage ==
    /\ pc = "read"
    /\ ~cancel
    /\ Len(texts) < Len(doc)
    /\ LET i == Len(texts) + 1
       IN  /\ texts' = Append(texts, HybridText(PAGES[doc[i]]))
           /\ ocr_fallbacks' = ocr_fallbacks + (IF NeedsOcr(PAGES[doc[i]]) THEN 1 ELSE 0)
           /\ progress' = Append(progress, ProgressCall(i, Len(doc), i, "read"))
    /\ UNCHANGED <<doc, maxPages, cancel, pc, fut, count, rows, parsed, df,
                   summaries, block, entry, audit>>
    /\ UNCHANGED <<arg_value, arg_unit, ret_qha, ret_prod, pieces, arg_page, arg_name, ret_label>>
    /\ UNCHANGED appvars

\* the loop of hybrid_extract_text ends or breaks; texts is returned
HybridReturn ==
    /\ pc = "read"
    /\ cancel \/ Len(texts) = Len(doc)
    /\ pc' = "parse"
    /\ UNCHANGED <<doc, maxPages, cancel, texts, fut, count, rows, parsed, df,
                   summaries, progress, block, entry, audit>>
    /\ UNCHANGED funvars
    /\ UNCHANGED appvars

\* the texts hybrid_extract_text and ocr_document can return for a page
PageTexts ==
    {""} \cup {HybridText(PAGES[k]) : k \in PageKinds}
         \cup {ocr_page(PAGES[k]) : k \in PageKinds}

\* parse_entries_from_text on the page texts, computed once
EntriesOfText == [t \in PageTexts |-> parse_entries_from_text(t)]

\* the entries es of page i, each with its Page_Number
PageEntries(es, i) ==
    [k \in 1..Len(es) |->
        IF HasRaised(es[k]) THEN es[k] ELSE es[k] @@ [Page_Number |-> i]]

\* a faulty variant: the parse loop does not poll cancel_cb
ParsePageUnpolled ==
    /\ pc = "parse"
    /\ parsed < Len(texts)
    /\ \E i \in {parsed + 1}, total \in {IF texts # <<>> THEN Len(texts) ELSE 1} :
       \E page_entries \in {PageEntries(EntriesOfText[texts[i]], i)} :
          /\ rows' = rows \o page_entries
          /\ parsed' = i
          /\ progress' = Append(progress, ProgressCall(i, total, i, "parse"))
          /\ pc' = pc
    /\ UNCHANGED <<doc, maxPages, cancel, texts, fut, count, df, summaries,
                   block, entry, audit>>
    /\ UNCHANGED funvars
    /\ UNCHANGED appvars

\* a faulty variant: cancel_cb is polled only from the second page on
ParsePageLatePoll ==
    /\ pc = "parse"
    /\ ~cancel \/ parsed = 0
    /\ parsed < Len(texts)
    /\ \E i \in {parsed + 1}, total \in {IF texts # <<>> THEN Len(texts) ELSE 1} :
       \E page_entries \in {PageEntries(EntriesOfText[texts[i]], i)} :
          /\ rows' = rows \o page_entries
          /\ parsed' = i
          /\ progress' = Append(progress, ProgressCall(i, total, i, "parse"))
          /\ pc' = pc
    /\ UNCHANGED <<doc, maxPages, cancel, texts, fut, count, df, summaries,
                   block, entry, audit>>
    /\ UNCHANGED funvars
    /\ UNCHANGED appvars

\* one pass of the parse loop of extract_to_dataframe
ParsePage ==
    /\ pc = "parse"
    /\ ~cancel
    /\ parsed < Len(texts)
    /\ \E i \in {parsed + 1}, total \in {IF texts # <<>> THEN Len(texts) ELSE 1} :
       \E page_entries \in {PageEntries(EntriesOfText[texts[i]], i)} :
          IF \E k \in 1..Len(page_entries) : HasRaised(page_entries[k])
          THEN pc' = "raised" /\ UNCHANGED <<rows, parsed, progress>>
          ELSE /\ rows' = rows \o page_entries
               /\ parsed' = i
               /\ progress' = Append(progress, ProgressCall(i, total, i, "parse"))
               /\ pc' = pc
    /\ UNCHANGED <<doc, maxPages, cancel, texts, fut, count, df, summaries,
                   block, entry, audit>>
    /\ UNCHANGED funvars
    /\ UNCHANGED appvars

\* steps 3 to 5 of extract_to_dataframe and its return
Assemble ==
    /\ pc = "parse"
    /\ cancel \/ parsed = Len(texts)
    /\ df' = BuildTable(rows)
    /\ summaries' = BuildSummaries(df')
    /\ pc' = "done"
    /\ UNCHANGED <<doc, maxPages, cancel, texts, fut, count, rows, parsed,
                   progress, block, entry, audit>>
    /\ UNCHANGED funvars
    /\ UNCHANGED appvars

Next == RequestCancel \/ ReadPage \/ HybridReturn \/ ParsePage \/ Assemble

Spec == Init /\ [][Next]_vars

-----------------------------------------------------------------------------
(* ocr_document.  Every selected page is submitted to a pool of cfg.THREADS *)
(* workers before the as_completed loop starts; the state after the          *)
(* submissions is the initial one.  A future is queued, running, finished    *)
(* (done, not yet yielded by as_completed) or yielded.                       *)

Future(state, result) == [state |-> state, result |-> result]

\* len(pages)
Selected == Len(fut)

InitOcr ==
    /\ doc \in Documents
    /\ maxPages \in MaxPagesChoices
    /\ cancel = FALSE
    /\ pc = "collect"
    /\ texts = [i \in 1..SelectedCount(maxPages, Len(doc)) |-> ""]
    /\ fut = [i \in 1..SelectedCount(maxPages, Len(doc)) |-> Future("queued", "")]
    /\ count = 0
    /\ progress = <<>>
    /\ NoTable /\ NoBlock /\ NoFunctionCall
    /\ NoBatch /\ NoWindow

Running == {i \in 1..Selected : fut[i].state = "running"}
Queued == {i \in 1..Selected : fut[i].state = "queued"}

\* a free worker takes the oldest queued task
WorkerStart ==
    /\ pc \in {"collect", "shutdown"}
    /\ Queued # {}
    /\ Cardinality(Running) < THREADS
    /\ fut' = [fut EXCEPT ![Min(Queued)].state = "running"]
    /\ UNCHANGED <<doc, maxPages, cancel, pc, texts, count, rows, parsed, df,
                   summaries, progress, block, entry, audit>>
    /\ UNCHANGED funvars
    /\ UNCHANGED appvars

\* a worker returns from ocr_page
WorkerFinish(i) ==
    /\ pc \in {"collect", "shutdown"}
    /\ fut[i].state = "running"
    /\ fut' = [fut EXCEPT ![i] = Future("finished", ocr_page(PAGES[doc[i]]))]
    /\ UNCHANGED <<doc, maxPages, cancel, pc, texts, count, rows, parsed, df,
                   summaries, progress, block, entry, audit>>
    /\ UNCHANGED funvars
    /\ UNCHANGED appvars

\* a faulty variant: the result is stored at the index of its completion
CollectByCompletion(i) ==
    /\ pc = "collect"
    /\ fut[i].state = "finished"
    /\ ~cancel
    /\ texts' = [texts EXCEPT ![count + 1] = fut[i].result]
    /\ count' = count + 1
    /\ progress' = Append(progress, ProgressCall(count + 1, Len(fut), i, "ocr"))
    /\ fut' = [fut EXCEPT ![i].state = "yielded"]
    /\ UNCHANGED <<doc, maxPages, cancel, pc, rows, parsed, df, summaries,
                   block, entry, audit>>
    /\ UNCHANGED funvars
    /\ UNCHANGED appvars

\* as_completed yields the future of page i and the loop body stores it
Collect(i) ==
    /\ pc = "collect"
    /\ fut[i].state = "finished"
    /\ ~cancel
    /\ texts' = [texts EXCEPT ![i] = fut[i].result]
    /\ count' = count + 1
    /\ progress' = Append(progress, ProgressCall(count + 1, Selected, i, "ocr"))
    /\ fut' = [fut EXCEPT ![i].state = "yielded"]
    /\ UNCHANGED <<doc, maxPages, cancel, pc, rows, parsed, df, summaries,
                   block, entry, audit>>
    /\ UNCHANGED funvars
    /\ UNCHANGED appvars

\* a faulty variant: the result at hand is stored before the loop breaks
CollectThenBreak ==
    /\ pc = "collect"
    /\ cancel
    /\ \E i \in 1..Len(fut) :
          /\ fut[i].state = "finished"
          /\ texts' = [texts EXCEPT ![i] = fut[i].result]
          /\ count' = count + 1
          /\ fut' = [fut EXCEPT ![i].state = "yielded"]
    /\ pc' = "shutdown"
    /\ UNCHANGED <<doc, maxPages, cancel, rows, parsed, df, summaries,
                   progress, block, entry, audit>>
    /\ UNCHANGED funvars
    /\ UNCHANGED appvars

\* as_completed yields a future, cancel_cb() is true: break
CollectCancelled ==
    /\ pc = "collect"
    /\ \E i \in 1..Selected : fut[i].state = "finished"
    /\ cancel
    /\ pc' = "shutdown"
    /\ UNCHANGED <<doc, maxPages, cancel, texts, fut, count, rows, parsed, df,
                   summaries, progress, block, entry, audit>>
    /\ UNCHANGED funvars
    /\ UNCHANGED appvars

\* as_completed has yielded every future
CollectEnd ==
    /\ pc = "collect"
    /\ \A i \in 1..Selected : fut[i].state = "yielded"
    /\ pc' = "shutdown"
    /\ UNCHANGED <<doc, maxPages, cancel, texts, fut, count, rows, parsed, df,
                   summaries, progress, block, entry, audit>>
    /\ UNCHANGED funvars
    /\ UNCHANGED appvars

\* the with block has waited for every task; doc.close(); return texts
OcrReturn ==
    /\ pc = "shutdown"
    /\ \A i \in 1..Selected : fut[i].state \in {"finished", "yielded"}
    /\ pc' = "returned"
    /\ UNCHANGED <<doc, maxPages, cancel, texts, fut, count, rows, parsed, df,
                   summaries, progress, block, entry, audit>>
    /\ UNCHANGED funvars
    /\ UNCHANGED appvars

\* the flag is set while ocr_document runs
CancelOcr ==
    /\ pc \in {"collect", "shutdown"}
    /\ ~cancel
    /\ cancel' = TRUE
    /\ UNCHANGED <<doc, maxPages, pc, texts, fut, count, rows, parsed, df,
                   summaries, progress, block, entry, audit>>
    /\ UNCHANGED funvars
    /\ UNCHANGED appvars

NextOcr ==
    \/ WorkerStart
    \/ \E i \in 1..Selected : WorkerFinish(i)
    \/ \E i \in 1..Selected : Collect(i)
    \/ CollectCancelled
    \/ CollectEnd
    \/ OcrReturn
    \/ CancelOcr

SpecOcr == InitOcr /\ [][NextOcr]_vars

\* text acquisition through either entry point
InitAcq == Init \/ InitOcr
NextAcq == Next \/ NextOcr
SpecAcq == InitAcq /\ [][NextAcq]_vars

-----------------------------------------------------------------------------
(* parse_block and the audit of the Entry it returns, on blocks made of a    *)
(* few lines.                                                                *)

BLOCK_LINES ==
    { "Pusa Basmati 1", "(IET 10000)", "Rice", "Notified", "Applicant: IARI",
      "45 q/ha", "Hybrid cotton of Mahyco 1.8 t/ha", " ~~~ ", "", "x",
      "120 early maturity, yield 300 kg/acre." }

\* the most lines of a generated block
MaxLines == 2

JoinLines(q) == Join([i \in 1..Len(q) |-> q[i] \o "\n"])

\* the block of Scenario A
ScenarioA == "Pusa Basmati 1\n(IET 10000)\nRice\nNotified\nApplicant: IARI\n45 q/ha"

\* blocks about cotton, each with what the lexicon and the two patterns of
\* COTTON_TAXA give on it: the crop of infer_crop, and whether the tetraploid
\* and the diploid pattern are found in the lowered block
COTTON_BLOCKS == {
    [text |-> "CICR Suraj\nTetraploid cotton hybrid\nresistant to bollworm", crop |-> "Cotton", tetraploid |-> TRUE, diploid |-> FALSE],
    [text |-> "Desi line\nDiploid cotton variety", crop |-> "Cotton", tetraploid |-> FALSE, diploid |-> TRUE],
    [text |-> "PAU 1\nG. hirsutum cotton type", crop |-> "Cotton", tetraploid |-> TRUE, diploid |-> FALSE],
    [text |-> "PAU 2\ncotton of Gossypium arboreum", crop |-> "NA", tetraploid |-> FALSE, diploid |-> TRUE],
    [text |-> "PAU 3\nG. hirsutum\nvariety", crop |-> "NA", tetraploid |-> TRUE, diploid |-> FALSE],
    [text |-> "PAU 4\nD. Cotton", crop |-> "Cotton", tetraploid |-> FALSE, diploid |-> TRUE],
    [text |-> "PAU 5\ncotton\nTetraploid", crop |-> "NA", tetraploid |-> FALSE, diploid |-> FALSE],
    [text |-> "PAU 6\ntetraploid\ncotton", crop |-> "Cotton", tetraploid |-> FALSE, diploid |-> FALSE],
    [text |-> "PAU 7\ncotton with tetraploid cotton and diploid cotton", crop |-> "Cotton", tetraploid |-> TRUE, diploid |-> TRUE],
    [text |-> "Hybrid cotton of Mahyco", crop |-> "Cotton", tetraploid |-> FALSE, diploid |-> FALSE],
    [text |-> "PAU 8\ngreat cotton of arboreum", crop |-> "Cotton", tetraploid |-> FALSE, diploid |-> TRUE],
    [text |-> "PAU 9\nRice\nt. cotton", crop |-> "Cotton", tetraploid |-> TRUE, diploid |-> FALSE],
    [text |-> "Mahyco Seeds Ltd. cotton", crop |-> "Cotton", tetraploid |-> FALSE, diploid |-> TRUE],
    [text |-> "PAU 10\n~~ T.  COTTON ~~ line", crop |-> "Cotton", tetraploid |-> TRUE, diploid |-> FALSE],
    [text |-> "PAU 11\nrice of Gossypium hirsutum", crop |-> "NA", tetraploid |-> TRUE, diploid |-> FALSE] }

\* blocks around the bounds of the productivity range, each with the
\* Productivity and the Productivity_Confidence of its entry
PRODUCTIVITY_BLOCKS == {
    [text |-> "Alpha one\n900 q/ha", productivity |-> "NA", confidence |-> "Low"],
    [text |-> "Alpha one\n2 q/ha\n45", productivity |-> "45.0 q/ha", confidence |-> "Medium"],
    [text |-> "Alpha one\n4.999 q/ha", productivity |-> "NA", confidence |-> "Low"],
    [text |-> "Alpha one\n5 q/ha", productivity |-> "5.0 q/ha", confidence |-> "High"],
    [text |-> "Alpha one\n150 q/ha", productivity |-> "150.0 q/ha", confidence |-> "High"],
    [text |-> "Alpha one\n150.004 q/ha", productivity |-> "NA", confidence |-> "Low"],
    [text |-> "Alpha one\n151", productivity |-> "NA", confidence |-> "Low"],
    [text |-> "Alpha one\n150", productivity |-> "150.0 q/ha", confidence |-> "Medium"],
    [text |-> "Alpha one\n5", productivity |-> "NA", confidence |-> "Low"],
    [text |-> "Alpha one\n4.99", productivity |-> "NA", confidence |-> "Low"],
    [text |-> "Alpha one\n45.678 q/ha", productivity |-> "45.68 q/ha", confidence |-> "High"],
    [text |-> "Alpha one\n16 t/ha", productivity |-> "NA", confidence |-> "Low"],
    [text |-> "Alpha one\n15 t/ha", productivity |-> "150.0 q/ha", confidence |-> "High"],
    [text |-> "Alpha one\n400 kg/ha", productivity |-> "NA", confidence |-> "Low"],
    [text |-> "Alpha one\n60 q/ha then 900 q/ha", productivity |-> "NA", confidence |-> "Low"],
    [text |-> "Alpha one\n900 q/ha then 60 q/ha", productivity |-> "60.0 q/ha", confidence |-> "High"],
    [text |-> "Alpha one\n7 q/acre", productivity |-> "17.29 q/ha", confidence |-> "High"],
    [text |-> "Alpha one\nyield 0 q/ha\n149.99", productivity |-> "149.99 q/ha", confidence |-> "Medium"] }

BlockInputs ==
    {JoinLines(q) : q \in SeqsUpTo(BLOCK_LINES, MaxLines)}
        \cup {ScenarioA, " ", "\t\n \n", "~~ ~~~", "12", "?"}
        \cup {c.text : c \in COTTON_BLOCKS}
        \cup {c.text : c \in PRODUCTIVITY_BLOCKS}

InitBlock ==
    /\ block \in BlockInputs
    /\ pc = "block"
    /\ entry = <<>>
    /\ audit = ""
    /\ doc = <<>> /\ maxPages = <<>> /\ cancel = FALSE
    /\ texts = <<>> /\ progress = <<>>
    /\ NoTable /\ NoOcrDocument /\ NoFunctionCall
    /\ NoBatch /\ NoWindow

\* entry = parse_block(block)
ParseBlock ==
    /\ pc = "block"
    /\ entry' = parse_block(block)
    /\ pc' = IF HasRaised(entry') THEN "raised" ELSE "entry"
    /\ UNCHANGED <<doc, maxPages, cancel, texts, fut, count, rows, parsed, df,
                   summaries, progress, block, audit>>
    /\ UNCHANGED funvars
    /\ UNCHANGED appvars

\* _row_audit_flags on the row of the entry
AuditEntry ==
    /\ pc = "entry"
    /\ audit' = _row_audit_flags(entry)
    /\ pc' = "audited"
    /\ UNCHANGED <<doc, maxPages, cancel, texts, fut, count, rows, parsed, df,
                   summaries, progress, block, entry>>
    /\ UNCHANGED funvars
    /\ UNCHANGED appvars

NextBlock == ParseBlock \/ AuditEntry

SpecBlock == InitBlock /\ [][NextBlock]_vars

\* the rows of the pipeline: those of the tables of extract_to_dataframe
\* and those parse_block and _row_audit_flags give block by block
InitRows == Init \/ InitBlock
NextRows == Next \/ NextBlock
SpecRows == InitRows /\ [][NextRows]_vars

-----------------------------------------------------------------------------
(* detect_productivity on blocks that mention a yield, and normalize_units on *)
(* numbers and unit strings.                                                  *)

\* numerals of a mention, with repr(float(text)) and repr(round(float(text), 2))
NUMERALS == {
    [text |-> "4.99",   exact |-> "4.99",   shown |-> "4.99",   inrange |-> FALSE],
    [text |-> "5",      exact |-> "5.0",    shown |-> "5.0",    inrange |-> TRUE],
    [text |-> "12.5",   exact |-> "12.5",   shown |-> "12.5",   inrange |-> TRUE],
    [text |-> "0045",   exact |-> "45.0",   shown |-> "45.0",   inrange |-> TRUE],
    [text |-> "45.678", exact |-> "45.678", shown |-> "45.68",  inrange |-> TRUE],
    [text |-> "149.99", exact |-> "149.99", shown |-> "149.99", inrange |-> TRUE],
    [text |-> "150",    exact |-> "150.0",  shown |-> "150.0",  inrange |-> TRUE],
    [text |-> "150.01", exact |-> "150.01", shown |-> "150.01", inrange |-> FALSE],
    [text |-> "300",    exact |-> "300.0",  shown |-> "300.0",  inrange |-> FALSE] }

MENTION_PREFIXES == {"", "Yield: ", "120\nyield "}
MENTION_GAPS == {"", " ", "\n"}
MENTION_UNITS == {"q/ha", "Q/Ha", "t/ha", "kg/acre"}
MENTION_SUFFIXES == {"", " approx.", "\nNotified"}

\* a block with one yield mention: prefix, numeral, gap, unit, suffix
Mention(pre, n, gap, u, suf) == pre \o n.text \o gap \o u \o suf

MentionBlocks ==
    {Mention(pre, n, gap, u, suf) :
        pre \in MENTION_PREFIXES, n \in NUMERALS, gap \in MENTION_GAPS,
        u \in MENTION_UNITS, suf \in MENTION_SUFFIXES}

\* the numbers and the unit strings handed to normalize_units
VALUES == {<<0, 1>>, <<3, 1>>, <<9, 2>>, <<45, 1>>}
UNITS ==
    {"q/ha", "quintal/ha", "quintals/ha", "quintalperhectare",
     "t/ha", "ton/ha", "tons/ha", "tonnes/ha",
     "kg/ha", "kgs/ha", "kilogram/ha",
     "q/acre", "quintal/acre", "quintals/acre",
     "t/acre", "ton/acre", "tons/acre",
     "kg/acre", "kgs/acre",
     "", " ", "bushel/acre", "ha", "\tt/ha",
     "T/HA", "Kg / Ha", "Quintal/Acre", " t / acre ", "KGS/ACRE", "Q/ha"}

(* detect_productivity on blocks of several lines.  A line case gives, next  *)
(* to its text, what Python makes of the line: kept tells whether clean_lines *)
(* returns it, mention whether it holds a "<number><unit>" mention and        *)
(* whether the value in q/ha lies in [5,150], numeral whether the stripped    *)
(* line is digits with an optional decimal part, inrange whether that number  *)
(* lies in [5,150], digits the length of its integer part, and shown the      *)
(* repr of the value returned (rounded to two places for a mention).          *)

PRODUCTIVITY_LINES == {
    [text |-> "Yield 45 q/ha approx.", kept |-> TRUE, mention |-> "in", shown |-> "45.0", numeral |-> FALSE, inrange |-> FALSE, digits |-> 0],
    [text |-> "1.8 t/ha", kept |-> TRUE, mention |-> "in", shown |-> "18.0", numeral |-> FALSE, inrange |-> FALSE, digits |-> 0],
    [text |-> "300 kg/acre", kept |-> TRUE, mention |-> "in", shown |-> "7.41", numeral |-> FALSE, inrange |-> FALSE, digits |-> 0],
    [text |-> "yield 300 q/ha", kept |-> TRUE, mention |-> "out", shown |-> "", numeral |-> FALSE, inrange |-> FALSE, digits |-> 0],
    [text |-> "2 q/ha", kept |-> TRUE, mention |-> "out", shown |-> "", numeral |-> FALSE, inrange |-> FALSE, digits |-> 0],
    [text |-> "120", kept |-> TRUE, mention |-> "none", shown |-> "120.0", numeral |-> TRUE, inrange |-> TRUE, digits |-> 3],
    [text |-> "0045", kept |-> TRUE, mention |-> "none", shown |-> "45.0", numeral |-> TRUE, inrange |-> TRUE, digits |-> 4],
    [text |-> "7", kept |-> FALSE, mention |-> "none", shown |-> "7.0", numeral |-> TRUE, inrange |-> TRUE, digits |-> 1],
    [text |-> "45.678", kept |-> TRUE, mention |-> "none", shown |-> "45.678", numeral |-> TRUE, inrange |-> TRUE, digits |-> 2],
    [text |-> "200", kept |-> TRUE, mention |-> "none", shown |-> "200.0", numeral |-> TRUE, inrange |-> FALSE, digits |-> 3],
    [text |-> "150", kept |-> TRUE, mention |-> "none", shown |-> "150.0", numeral |-> TRUE, inrange |-> TRUE, digits |-> 3],
    [text |-> "4.9", kept |-> TRUE, mention |-> "none", shown |-> "4.9", numeral |-> TRUE, inrange |-> FALSE, digits |-> 1],
    [text |-> "12 early", kept |-> TRUE, mention |-> "none", shown |-> "", numeral |-> FALSE, inrange |-> FALSE, digits |-> 0],
    [text |-> "x", kept |-> TRUE, mention |-> "none", shown |-> "", numeral |-> FALSE, inrange |-> FALSE, digits |-> 0],
    [text |-> "", kept |-> FALSE, mention |-> "none", shown |-> "", numeral |-> FALSE, inrange |-> FALSE, digits |-> 0],
    [text |-> " ~~ ", kept |-> FALSE, mention |-> "none", shown |-> "", numeral |-> FALSE, inrange |-> FALSE, digits |-> 0],
    [text |-> "012.50", kept |-> TRUE, mention |-> "none", shown |-> "12.5", numeral |-> TRUE, inrange |-> TRUE, digits |-> 3] }

\* a line without a number
FILLER ==
    [text |-> "Notified variety", kept |-> TRUE, mention |-> "none", shown |-> "", numeral |-> FALSE, inrange |-> FALSE, digits |-> 0]

Fill(k) == [i \in 1..k |-> FILLER]

\* two line cases, fillers between them and after them
LineSeqs ==
    { <<a>> \o Fill(k) \o <<b>> \o Fill(j) :
        a \in PRODUCTIVITY_LINES, b \in PRODUCTIVITY_LINES, k \in {0, 3}, j \in {0, 3, 4, 5} }

\* the block the lines make
RECURSIVE BlockOfLines(_)
BlockOfLines(q) ==
    IF q = <<>> THEN ""
    ELSE IF Len(q) = 1 THEN q[1].text
    ELSE q[1].text \o "\n" \o BlockOfLines(Tail(q))

InitProd ==
    /\ \/ /\ pc = "detect"
          /\ block \in MentionBlocks
          /\ pieces = <<>>
          /\ arg_value = <<>> /\ arg_unit = ""
       \/ /\ pc = "detect"
          /\ pieces \in LineSeqs
          /\ block = BlockOfLines(pieces)
          /\ arg_value = <<>> /\ arg_unit = ""
       \/ /\ pc = "normalize"
          /\ block = ""
          /\ pieces = <<>>
          /\ arg_value \in VALUES /\ arg_unit \in UNITS
    /\ ret_qha = <<>> /\ ret_prod = <<>>
    /\ NoPage /\ NoLabel
    /\ NoBatch /\ NoWindow
    /\ entry = <<>> /\ audit = ""
    /\ doc = <<>> /\ maxPages = <<>> /\ cancel = FALSE
    /\ texts = <<>> /\ progress = <<>>
    /\ NoTable /\ NoOcrDocument

\* ret_prod = detect_productivity(block)
DetectProductivity ==
    /\ pc = "detect"
    /\ ret_prod' = detect_productivity(block)
    /\ pc' = "detected"
    /\ UNCHANGED <<doc, maxPages, cancel, texts, fut, count, rows, parsed, df,
                   summaries, progress, block, entry, audit,
                   arg_value, arg_unit, ret_qha, pieces, arg_page, ocr_fallbacks,
                   arg_name, ret_label>>
    /\ UNCHANGED appvars

\* ret_qha = normalize_units(arg_value, arg_unit)
NormalizeUnits ==
    /\ pc = "normalize"
    /\ ret_qha' = normalize_units(arg_value, arg_unit)
    /\ pc' = "normalized"
    /\ UNCHANGED <<doc, maxPages, cancel, texts, fut, count, rows, parsed, df,
                   summaries, progress, block, entry, audit,
                   arg_value, arg_unit, ret_prod, pieces, arg_page, ocr_fallbacks,
                   arg_name, ret_label>>
    /\ UNCHANGED appvars

NextProd == DetectProductivity \/ NormalizeUnits

SpecProd == InitProd /\ [][NextProd]_vars

-----------------------------------------------------------------------------
(* parse_entries_from_text on texts made of anchors and spans: the text     *)
(* before the first anchor, then each anchor with the span that follows it. *)

ANCHORS == {"REG/2020/7", "reg/1999/12"}

\* spans, as written and as strip_non_english leaves them
SPANS == {
    [raw |-> "", clean |-> ""],
    [raw |-> " tiny note\n", clean |-> "tiny note"],
    [raw |-> "\nPAU 343 wheats \n", clean |-> "PAU 343 wheats"],
    [raw |-> "\nPAU 3430 wheats\n", clean |-> "PAU 3430 wheats"],
    [raw |-> "\nKisan ~~  REG/20/1 selection,  52 q/ha\n",
     clean |-> "Kisan REG/20/1 selection, 52 q/ha"],
    [raw |-> "\nHybrid maize of Mahyco,  61 q/ha\n",
     clean |-> "Hybrid maize of Mahyco, 61 q/ha"],
    [raw |-> " ~~~~~~~~  x ~~~~~~~~~ \n", clean |-> "x"] }

\* what a text can hold before its first anchor
PREAMBLES == {
    [raw |-> "", clean |-> ""],
    [raw |-> "Journal page 12, notes before the first anchor\n",
     clean |-> "Journal page 12, notes before the first anchor"] }

\* the most anchors of a generated text
MaxAnchors == 2

Piece(a, s) == [anchor |-> a, span |-> s]

PieceSeqs ==
    {<<Piece("", p)>> \o q :
        p \in PREAMBLES, q \in SeqsUpTo({Piece(a, s) : a \in ANCHORS, s \in SPANS}, MaxAnchors)}

\* the text the pieces make
TextOf(q) == Join([k \in 1..Len(q) |-> q[k].anchor \o q[k].span.raw])

InitSeg ==
    /\ pieces \in PieceSeqs
    /\ texts = <<TextOf(pieces)>>
    /\ pc = "segment"
    /\ rows = <<>> /\ parsed = 0 /\ df = <<>> /\ summaries = <<>>
    /\ doc = <<>> /\ maxPages = <<>> /\ cancel = FALSE
    /\ progress = <<>>
    /\ arg_value = <<>> /\ arg_unit = "" /\ ret_qha = <<>> /\ ret_prod = <<>>
    /\ NoPage /\ NoLabel
    /\ NoBatch /\ NoWindow
    /\ NoOcrDocument /\ NoBlock

\* rows = parse_entries_from_text(texts[1])
ParseEntries ==
    /\ pc = "segment"
    /\ \E es \in {parse_entries_from_text(texts[1])} :
          /\ rows' = es
          /\ pc' = IF \E k \in 1..Len(es) : HasRaised(es[k]) THEN "raised" ELSE "segmented"
    /\ UNCHANGED <<doc, maxPages, cancel, texts, fut, count, parsed, df,
                   summaries, progress, block, entry, audit>>
    /\ UNCHANGED funvars
    /\ UNCHANGED appvars

\* _row_audit_flags on the rows, as extract_to_dataframe applies it
AuditRows ==
    /\ pc = "segmented"
    /\ rows' = [k \in 1..Len(rows) |-> rows[k] @@ [Audit_Flags |-> _row_audit_flags(rows[k])]]
    /\ pc' = "audited"
    /\ UNCHANGED <<doc, maxPages, cancel, texts, fut, count, parsed, df,
                   summaries, progress, block, entry, audit>>
    /\ UNCHANGED funvars
    /\ UNCHANGED appvars

NextSeg == ParseEntries \/ AuditRows

SpecSeg == InitSeg /\ [][NextSeg]_vars

-----------------------------------------------------------------------------
(* _row_audit_flags on rows whose fields are drawn from a few values each.   *)

\* Productivity texts, with what float() makes of the text without "q/ha":
\* whether it parses, and whether the number lies in [5, 150]
PRODUCTIVITY_CASES == {
    [text |-> "NA",         parses |-> FALSE, inrange |-> FALSE],
    [text |-> "",           parses |-> FALSE, inrange |-> FALSE],
    [text |-> "abc q/ha",   parses |-> FALSE, inrange |-> FALSE],
    [text |-> "45.0 q/ha",  parses |-> TRUE,  inrange |-> TRUE],
    [text |-> "5.0 q/ha",   parses |-> TRUE,  inrange |-> TRUE],
    [text |-> "150.0 q/ha", parses |-> TRUE,  inrange |-> TRUE],
    [text |-> "q/ha 12",    parses |-> TRUE,  inrange |-> TRUE],
    [text |-> "4.99 q/ha",  parses |-> TRUE,  inrange |-> FALSE],
    [text |-> "150.5",      parses |-> TRUE,  inrange |-> FALSE],
    [text |-> "-7 q/ha",    parses |-> TRUE,  inrange |-> FALSE],
    [text |-> "nan",        parses |-> TRUE,  inrange |-> FALSE] }

AUDIT_ROWS ==
    {[Reg_No |-> "REG/2020/7", Variety_Name |-> vn, Crop |-> crop, Variety_Type |-> vt,
      Productivity |-> p.text, Applicant |-> ap, Taxonomy |-> tax] :
        vn \in {"NA", "", "PAU 343"}, crop \in {"NA", "Cotton", "Rice"},
        vt \in {"NA", "New"}, p \in PRODUCTIVITY_CASES,
        ap \in {"NA", "", "Kisan"}, tax \in {"NA", "Tetraploid Cotton"}}

InitAudit ==
    /\ entry \in AUDIT_ROWS
    /\ pc = "entry"
    /\ block = "" /\ audit = ""
    /\ doc = <<>> /\ maxPages = <<>> /\ cancel = FALSE
    /\ texts = <<>> /\ progress = <<>>
    /\ NoTable /\ NoOcrDocument /\ NoFunctionCall
    /\ NoBatch /\ NoWindow

NextAudit == AuditEntry

SpecAudit == InitAudit /\ [][NextAudit]_vars

-----------------------------------------------------------------------------
(* One pass of the loop of hybrid_extract_text, on pages whose embedded     *)
(* text lies about the threshold.  A page case gives, next to what the PDF  *)
(* library and the OCR engine yield, the text Python makes of them: clean   *)
(* is re.sub(DEVANAGARI, "", digital.strip()), result is what ocr_page      *)
(* returns.                                                                 *)

\* 150 characters of embedded text
LATIN == "REG/2020/11 Pusa Basmati 1121 (IET 18004) Rice, extant variety notified 2008; applicant IARI New Delhi; yield 45 q/ha; distinct for extra long slender"

\* what stands before the Latin text, and what strip() and the filter leave of it
LEADS ==
    { [raw |-> "", kept |-> ""], [raw |-> " \n", kept |-> ""],
      [raw |-> "~~ ", kept |-> " "], [raw |-> "~", kept |-> ""] }

\* what stands after it
TRAILS ==
    { [raw |-> "", kept |-> ""], [raw |-> "\n", kept |-> ""],
      [raw |-> " ~~", kept |-> " "], [raw |-> "~", kept |-> ""] }

\* what stands between its last two characters
MIDDLES == { [raw |-> "", kept |-> ""], [raw |-> "~~~", kept |-> ""], [raw |-> " ", kept |-> " "] }

\* the lengths of the Latin text
LATIN_LENGTHS == {2, 147, 148, 149, 150}

OCR_OUTCOMES ==
    { [ocr |-> " ~~ scanned  copy \n", fails |-> "", result |-> "scanned  copy"],
      [ocr |-> "", fails |-> "", result |-> ""],
      [ocr |-> "never read", fails |-> "render", result |-> "[OCR ERROR: render failed]"] }

PageCase(lead, n, mid, trail, o) ==
    [digital |-> lead.raw \o SubSeq(LATIN, 1, n - 1) \o mid.raw \o SubSeq(LATIN, n, n) \o trail.raw,
     clean |-> lead.kept \o SubSeq(LATIN, 1, n - 1) \o mid.kept \o SubSeq(LATIN, n, n) \o trail.kept,
     ocr |-> o.ocr,
     fails |-> o.fails,
     result |-> o.result]

PageCases ==
    { PageCase(lead, n, mid, trail, o) :
        lead \in LEADS, n \in LATIN_LENGTHS, mid \in MIDDLES, trail \in TRAILS,
        o \in OCR_OUTCOMES }

InitHybrid ==
    /\ arg_page \in PageCases
    /\ ocr_fallbacks = 0
    /\ pc = "page"
    /\ doc = <<>> /\ maxPages = <<>> /\ cancel = FALSE
    /\ texts = <<>> /\ progress = <<>>
    /\ NoTable /\ NoOcrDocument /\ NoBlock
    /\ arg_value = <<>> /\ arg_unit = "" /\ ret_qha = <<>> /\ ret_prod = <<>> /\ pieces = <<>>
    /\ NoLabel
    /\ NoBatch /\ NoWindow

\* lines 136-141 of hybrid_extract_text for arg_page
HybridPage ==
    /\ pc = "page"
    /\ texts' = Append(texts, HybridText(arg_page))
    /\ ocr_fallbacks' = ocr_fallbacks + (IF NeedsOcr(arg_page) THEN 1 ELSE 0)
    /\ pc' = "paged"
    /\ UNCHANGED <<doc, maxPages, cancel, fut, count, rows, parsed, df,
                   summaries, progress, block, entry, audit>>
    /\ UNCHANGED <<arg_value, arg_unit, ret_qha, ret_prod, pieces, arg_page, arg_name, ret_label>>
    /\ UNCHANGED appvars

NextHybrid == HybridPage

SpecHybrid == InitHybrid /\ [][NextHybrid]_vars

-----------------------------------------------------------------------------
(* classify_applicant_type and detect_variety_type on texts made of tokens. *)
(* A token case gives, next to its text, what Python finds in the lowered   *)
(* token: a farmer, private or public hint, an abbreviation or full name of *)
(* APPLICANT_MAP; the keywords of VARIETY_TYPE_WORDS, by their labels.      *)

APPLICANT_TOKENS == {
    [text |-> "Grower", farmer |-> TRUE, private |-> FALSE, public |-> FALSE, mapped |-> FALSE],
    [text |-> "FARMER", farmer |-> TRUE, private |-> FALSE, public |-> FALSE, mapped |-> FALSE],
    [text |-> "Seeds", farmer |-> FALSE, private |-> TRUE, public |-> FALSE, mapped |-> FALSE],
    [text |-> "Pvt", farmer |-> FALSE, private |-> TRUE, public |-> FALSE, mapped |-> FALSE],
    [text |-> "University", farmer |-> FALSE, private |-> FALSE, public |-> TRUE, mapped |-> FALSE],
    [text |-> "ICAR", farmer |-> FALSE, private |-> FALSE, public |-> TRUE, mapped |-> TRUE],
    [text |-> "Govind", farmer |-> FALSE, private |-> FALSE, public |-> TRUE, mapped |-> FALSE],
    [text |-> "CICR", farmer |-> FALSE, private |-> FALSE, public |-> FALSE, mapped |-> TRUE],
    [text |-> "Jawahar", farmer |-> FALSE, private |-> FALSE, public |-> FALSE, mapped |-> TRUE],
    [text |-> "DRR", farmer |-> FALSE, private |-> FALSE, public |-> FALSE, mapped |-> TRUE],
    [text |-> "Ramesh", farmer |-> FALSE, private |-> FALSE, public |-> FALSE, mapped |-> FALSE],
    [text |-> "Kumar", farmer |-> FALSE, private |-> FALSE, public |-> FALSE, mapped |-> FALSE] }

VARIETY_TOKENS == {
    [text |-> "Extant", keys |-> {"Extant"}],
    [text |-> "NOTIFIED", keys |-> {"Notified"}],
    [text |-> "new", keys |-> {"New"}],
    [text |-> "Hybrid", keys |-> {"Hybrid"}],
    [text |-> "variety", keys |-> {}],
    [text |-> "renewal", keys |-> {"New"}],
    [text |-> "hybridization", keys |-> {"Hybrid"}] }

\* the most tokens of an applicant; of a block
MaxNameTokens == 2
MaxBlockTokens == 3

\* the tokens of q, sep between them
RECURSIVE JoinTokens(_, _)
JoinTokens(q, sep) ==
    IF q = <<>> THEN ""
    ELSE IF Len(q) = 1 THEN q[1].text
    ELSE q[1].text \o sep \o JoinTokens(Tail(q), sep)

InitClass ==
    /\ \/ /\ pc = "applicant"
          /\ \/ /\ pieces \in SeqsUpTo(APPLICANT_TOKENS, MaxNameTokens)
                /\ arg_name = JoinTokens(pieces, " ")
             \/ /\ pieces = <<>>
                /\ arg_name \in {"NA", " ", "na"}
          /\ block = ""
       \/ /\ pc = "variety"
          /\ pieces \in SeqsUpTo(VARIETY_TOKENS, MaxBlockTokens)
          /\ block = JoinTokens(pieces, "\n")
          /\ arg_name = ""
    /\ ret_label = ""
    /\ arg_value = <<>> /\ arg_unit = "" /\ ret_qha = <<>> /\ ret_prod = <<>>
    /\ NoPage
    /\ NoBatch /\ NoWindow
    /\ entry = <<>> /\ audit = ""
    /\ doc = <<>> /\ maxPages = <<>> /\ cancel = FALSE
    /\ texts = <<>> /\ progress = <<>>
    /\ NoTable /\ NoOcrDocument

\* ret_label = classify_applicant_type(arg_name)
ClassifyApplicant ==
    /\ pc = "applicant"
    /\ ret_label' = classify_applicant_type(arg_name)
    /\ pc' = "classified"
    /\ UNCHANGED <<doc, maxPages, cancel, texts, fut, count, rows, parsed, df,
                   summaries, progress, block, entry, audit>>
    /\ UNCHANGED <<arg_value, arg_unit, ret_qha, ret_prod, pieces, arg_page,
                   ocr_fallbacks, arg_name>>
    /\ UNCHANGED appvars

\* ret_label = detect_variety_type(block)
DetectVarietyType ==
    /\ pc = "variety"
    /\ ret_label' = detect_variety_type(block)
    /\ pc' = "typed"
    /\ UNCHANGED <<doc, maxPages, cancel, texts, fut, count, rows, parsed, df,
                   summaries, progress, block, entry, audit>>
    /\ UNCHANGED <<arg_value, arg_unit, ret_qha, ret_prod, pieces, arg_page,
                   ocr_fallbacks, arg_name>>
    /\ UNCHANGED appvars

NextClass == ClassifyApplicant \/ DetectVarietyType

SpecClass == InitClass /\ [][NextClass]_vars

-----------------------------------------------------------------------------
(* run_all.py: the batch runner.  A PDF of the batch is a path; FILES says  *)
(* what is behind each path: the pages of the document, whether the PDF    *)
(* library can open it (fitz.open raises otherwise) and whether its         *)
(* workbook can be written (pd.ExcelWriter raises otherwise).               *)

FILES ==
    ("in/a.pdf"   :> [doc |-> <<"typeset">>, readable |-> TRUE, writable |-> TRUE])
 @@ ("in/b.PDF"   :> [doc |-> <<>>, readable |-> FALSE, writable |-> TRUE])
 @@ ("in/c.d.pdf" :> [doc |-> <<"scan", "torn">>, readable |-> TRUE, writable |-> TRUE])
 @@ ("old/a.pdf"  :> [doc |-> <<"noise">>, readable |-> TRUE, writable |-> FALSE])

\* the most PDFs of a batch
MaxPdfs == 3

\* what find_pdfs can return
PdfLists == SeqsUpTo(DOMAIN FILES, MaxPdfs)

\* config.OUTPUT_DIR, the default of --out
OUTPUT_DIR == "output_excels"

DEFAULT_CROPS == <<"rice", "cotton", "maize", "wheat", "tomato">>
\* DEFAULT_PATTERNS, by the names of its fields
DEFAULT_PATTERNS ==
    <<"Variety_Name", "Crop", "Applicant", "Developer_or_Breeder",
      "Charter_of_Crop", "Taxonomy", "Productivity", "Distinctiveness">>

\* the fields of Config the claims are about
Config(target_crops, field_patterns) ==
    [TARGET_CROPS |-> target_crops, FIELD_PATTERNS |-> field_patterns]

DEFAULTS == Config(DEFAULT_CROPS, DEFAULT_PATTERNS)

\* the values of args.crops: <<>> stands for None and for the empty list
CROPS_OPTIONS == {<<>>, <<"Rice">>, <<"Sorghum", "WHEAT">>}

build_cfg_from_args(crops) ==
    Config([k \in 1..Len(IF crops # <<>> THEN crops ELSE DEFAULTS.TARGET_CROPS) |->
                Lower((IF crops # <<>> THEN crops ELSE DEFAULTS.TARGET_CROPS)[k])],
           DEFAULTS.FIELD_PATTERNS)

\* os.path.basename and os.path.splitext(...)[0]
RECURSIVE LastOf(_, _, _)
LastOf(s, c, i) ==
    IF i = 0 THEN 0 ELSE IF Ch(s, i) = c THEN i ELSE LastOf(s, c, i - 1)
basename(p) == SubSeq(p, LastOf(p, "/", Len(p)) + 1, Len(p))
splitext0(p) ==
    LET dot == LastOf(p, ".", Len(p))
    IN  IF dot > LastOf(p, "/", Len(p)) + 1 THEN SubSeq(p, 1, dot - 1) ELSE p

pdf_to_xlsx_name(pdf_path, out_dir) ==
    out_dir \o "/" \o splitext0(basename(pdf_path)) \o ".xlsx"

\* the rows of pages 1..n of the texts ts, as the parse loop extends them
RECURSIVE RowsOfTexts(_, _)
RowsOfTexts(ts, n) ==
    IF n = 0 THEN <<>>
    ELSE RowsOfTexts(ts, n - 1) \o PageEntries(EntriesOfText[ts[n]], n)

\* steps 3 to 5 of extract_to_dataframe and its return value
Returned(table) == [df |-> table, summaries |-> BuildSummaries(table)]

\* an exception of parse_block leaves extract_to_dataframe
ExtractFromRows(rs) ==
    IF \E k \in 1..Len(rs) : HasRaised(rs[k])
    THEN [raised |-> TRUE]
    ELSE Returned(BuildTable(rs))

ExtractFromTexts(ts) == ExtractFromRows(RowsOfTexts(ts, Len(ts)))

\* a faulty variant: the rows whose crop is not a target crop are dropped
extract_to_dataframe_target_crops(d, config) ==
    ExtractFromRows(
        SelectSeq(RowsOfTexts([i \in 1..Len(d) |-> HybridText(PAGES[d[i]])], Len(d)),
                  LAMBDA r : HasRaised(r) \/ Lower(r.Crop) \in Range(config.TARGET_CROPS)))

\* extract_to_dataframe on an opened document when cancel_cb stays false:
\* a record with the field raised if an exception leaves it
extract_to_dataframe(d, config) ==
    ExtractFromTexts([i \in 1..Len(d) |-> HybridText(PAGES[d[i]])])

\* write_full_workbook on what extract_to_dataframe returned
WriteWorkbook(out_xlsx, file, r) ==
    IF HasRaised(r) \/ ~file.writable THEN [raised |-> TRUE]
    ELSE [out_xlsx |-> out_xlsx, df |-> r.df, summaries |-> r.summaries]

\* process_one: the workbook it wrote, or a record with the field raised
process_one(pdf_path, config, out_dir) ==
    IF ~FILES[pdf_path].readable THEN [raised |-> TRUE]
    ELSE WriteWorkbook(pdf_to_xlsx_name(pdf_path, out_dir), FILES[pdf_path],
                       extract_to_dataframe(FILES[pdf_path].doc, config))

InitBatch ==
    /\ pdfs \in PdfLists
    /\ cfg \in {build_cfg_from_args(crops) : crops \in CROPS_OPTIONS}
    /\ failures = 0 /\ outputs = <<>> /\ attempts = <<>> /\ status = <<>>
    /\ pc = "main"
    /\ doc = <<>> /\ maxPages = <<>> /\ cancel = FALSE
    /\ texts = <<>> /\ progress = <<>>
    /\ NoTable /\ NoOcrDocument /\ NoBlock /\ NoFunctionCall
    /\ NoWindow

batchfixed == <<doc, maxPages, cancel, texts, fut, count, rows, parsed, df,
                summaries, progress, block, entry, audit, cfg, pdfs,
                app_state, btn_start, btn_cancel, res_q, worker>>

\* main up to its loop: --show-config returns 0, no PDF found returns 1
MainStart ==
    /\ pc = "main"
    /\ \E show_config \in BOOLEAN :
          IF show_config THEN pc' = "shown" /\ status' = <<0>>
          ELSE IF pdfs = <<>> THEN pc' = "exit" /\ status' = <<1>>
          ELSE pc' = "loop" /\ status' = status
    /\ UNCHANGED <<failures, outputs, attempts>>
    /\ UNCHANGED batchfixed
    /\ UNCHANGED funvars

\* a faulty variant: an exception of process_one leaves main
ProcessOneUncaught ==
    /\ pc = "loop"
    /\ Len(attempts) < Len(pdfs)
    /\ \E pdf \in {pdfs[Len(attempts) + 1]} :
       \E r \in {process_one(pdf, cfg, OUTPUT_DIR)} :
          /\ attempts' = Append(attempts, [pdf |-> pdf, result |-> r])
          /\ IF HasRaised(r)
             THEN pc' = "exit" /\ status' = <<1>> /\ UNCHANGED <<failures, outputs>>
             ELSE /\ outputs' = Append(outputs, r.out_xlsx)
                  /\ UNCHANGED <<pc, status, failures>>
    /\ UNCHANGED batchfixed
    /\ UNCHANGED funvars

\* one pass of the loop of main
ProcessOne ==
    /\ pc = "loop"
    /\ Len(attempts) < Len(pdfs)
    /\ \E pdf \in {pdfs[Len(attempts) + 1]} :
       \E r \in {process_one(pdf, cfg, OUTPUT_DIR)} :
          /\ attempts' = Append(attempts, [pdf |-> pdf, result |-> r])
          /\ IF HasRaised(r)
             THEN failures' = failures + 1 /\ outputs' = outputs
             ELSE failures' = failures /\ outputs' = Append(outputs, r.out_xlsx)
    /\ UNCHANGED <<pc, status>>
    /\ UNCHANGED batchfixed
    /\ UNCHANGED funvars

\* the loop is over: the summary is printed and main returns
BatchSummary ==
    /\ pc = "loop"
    /\ Len(attempts) = Len(pdfs)
    /\ status' = <<IF failures = 0 THEN 0 ELSE 2>>
    /\ pc' = "exit"
    /\ UNCHANGED <<failures, outputs, attempts>>
    /\ UNCHANGED batchfixed
    /\ UNCHANGED funvars

NextBatch == MainStart \/ ProcessOne \/ BatchSummary

SpecBatch == InitBatch /\ [][NextBatch]_vars

-----------------------------------------------------------------------------
(* main_app.py: the desktop window and its worker thread.  The handlers of *)
(* the window run one at a time on the Tk main loop; the PipelineWorker    *)
(* runs beside them and hands its JobResults over through res_q.           *)

\* the PDFs the file dialog offers
GUI_FILES == {"in/a.pdf", "in/b.PDF", "old/a.pdf"}

\* the most files of the list of the window
MaxFiles == 2

\* JobResult, by the fields _poll_queues reads
JobResult(pdf_path, ok) == [pdf_path |-> pdf_path, ok |-> ok]

\* PipelineWorker(files, ...): idx counts the passes of its loop begun
PipelineWorker(files) == [files |-> files, idx |-> 0, alive |-> TRUE]

InitGui ==
    /\ app_state = AppState(<<>>)
    /\ btn_start = "normal" /\ btn_cancel = "disabled"
    /\ res_q = <<>> /\ worker = <<>>
    /\ pc = "mainloop"
    /\ doc = <<>> /\ maxPages = <<>> /\ cancel = FALSE
    /\ texts = <<>> /\ progress = <<>>
    /\ NoTable /\ NoOcrDocument /\ NoBlock /\ NoFunctionCall
    /\ NoBatch

guifixed == <<doc, maxPages, cancel, pc, texts, fut, count, rows, parsed, df,
              summaries, progress, block, entry, audit,
              cfg, pdfs, failures, outputs, attempts, status>>

on_add_files ==
    /\ Len(app_state.files) < MaxFiles
    /\ \E p \in GUI_FILES :
          /\ \A k \in 1..Len(app_state.files) : app_state.files[k] # p
          /\ app_state' = [app_state EXCEPT !.files = Append(@, p)]
    /\ UNCHANGED <<btn_start, btn_cancel, res_q, worker>>
    /\ UNCHANGED guifixed
    /\ UNCHANGED funvars

on_remove_selected ==
    /\ \E k \in 1..Len(app_state.files) :
          app_state' = [app_state EXCEPT !.files =
                            SubSeq(@, 1, k - 1) \o SubSeq(@, k + 1, Len(@))]
    /\ UNCHANGED <<btn_start, btn_cancel, res_q, worker>>
    /\ UNCHANGED guifixed
    /\ UNCHANGED funvars

on_clear ==
    /\ app_state.files # <<>>
    /\ app_state' = [app_state EXCEPT !.files = <<>>]
    /\ UNCHANGED <<btn_start, btn_cancel, res_q, worker>>
    /\ UNCHANGED guifixed
    /\ UNCHANGED funvars

on_start ==
    /\ ~app_state.running
    /\ app_state.files # <<>>
    /\ app_state' = [app_state EXCEPT !.running = TRUE,
                                      !.cancel_requested = FALSE,
                                      !.total_jobs = Len(app_state.files),
                                      !.completed_jobs = 0]
    /\ btn_start' = "disabled"
    /\ btn_cancel' = "normal"
    /\ worker' = <<PipelineWorker(app_state.files)>>
    /\ UNCHANGED res_q
    /\ UNCHANGED guifixed
    /\ UNCHANGED funvars

on_cancel ==
    /\ app_state.running
    /\ ~app_state.cancel_requested
    /\ app_state' = [app_state EXCEPT !.cancel_requested = TRUE]
    /\ UNCHANGED <<btn_start, btn_cancel, res_q, worker>>
    /\ UNCHANGED guifixed
    /\ UNCHANGED funvars

\* one pass of the loop of PipelineWorker.run that finds cancel_flag() false:
\* the file is processed and its JobResult is put; ok is false when the
\* try block was left by an exception (the PDF cannot be opened, or its
\* workbook cannot be written)
WorkerJob ==
    /\ worker # <<>>
    /\ worker[1].alive
    /\ worker[1].idx < Len(worker[1].files)
    /\ ~app_state.cancel_requested
    /\ \E pdf_path \in {worker[1].files[worker[1].idx + 1]} :
       \E ok \in {FILES[pdf_path].readable /\ FILES[pdf_path].writable} :
          res_q' = Append(res_q, JobResult(pdf_path, ok))
    /\ worker' = <<[worker[1] EXCEPT !.idx = @ + 1]>>
    /\ UNCHANGED <<app_state, btn_start, btn_cancel>>
    /\ UNCHANGED guifixed
    /\ UNCHANGED funvars

\* the pass that finds cancel_flag() true breaks the loop; run returns
WorkerBreak ==
    /\ worker # <<>>
    /\ worker[1].alive
    /\ worker[1].idx < Len(worker[1].files)
    /\ app_state.cancel_requested
    /\ worker' = <<[worker[1] EXCEPT !.alive = FALSE]>>
    /\ UNCHANGED <<app_state, btn_start, btn_cancel, res_q>>
    /\ UNCHANGED guifixed
    /\ UNCHANGED funvars

\* the loop is exhausted; run returns
WorkerEnd ==
    /\ worker # <<>>
    /\ worker[1].alive
    /\ worker[1].idx = Len(worker[1].files)
    /\ worker' = <<[worker[1] EXCEPT !.alive = FALSE]>>
    /\ UNCHANGED <<app_state, btn_start, btn_cancel, res_q>>
    /\ UNCHANGED guifixed
    /\ UNCHANGED funvars

\* _on_batch_finished on the AppState st
BatchFinished(st) == [st EXCEPT !.running = FALSE]

\* the results loop of _poll_queues on the queue q: <<state, finished>>
RECURSIVE DrainResults(_, _, _)
DrainResults(st, finished, q) ==
    IF q = <<>> THEN <<st, finished>>
    ELSE IF st.completed_jobs + 1 = st.total_jobs
         THEN DrainResults(BatchFinished([st EXCEPT !.completed_jobs = @ + 1]),
                           TRUE, Tail(q))
         ELSE DrainResults([st EXCEPT !.completed_jobs = @ + 1], finished, Tail(q))

\* _poll_queues when it finds results: it takes them all
_poll_queues ==
    /\ res_q # <<>>
    /\ \E drained \in {DrainResults(app_state, FALSE, res_q)} :
          /\ app_state' = drained[1]
          /\ btn_start' = IF drained[2] THEN "normal" ELSE btn_start
          /\ btn_cancel' = IF drained[2] THEN "disabled" ELSE btn_cancel
    /\ res_q' = <<>>
    /\ UNCHANGED worker
    /\ UNCHANGED guifixed
    /\ UNCHANGED funvars

NextGui ==
    \/ on_add_files \/ on_remove_selected \/ on_clear \/ on_start \/ on_cancel
    \/ WorkerJob \/ WorkerBreak \/ WorkerEnd \/ _poll_queues

SpecGui == InitGui /\ [][NextGui]_vars

\* the worker thread keeps running while it can, and the main loop calls
\* _poll_queues again every 100 ms
FairGui ==
    /\ SpecGui
    /\ WF_vars(WorkerJob) /\ WF_vars(WorkerBreak) /\ WF_vars(WorkerEnd)
    /\ WF_vars(_poll_queues)

-----------------------------------------------------------------------------
(* Properties                                                                *)

\* the index in rows of the first entry that carries reg_no
FirstWith(reg_no) == Min({k \in 1..Len(rows) : rows[k].Reg_No = reg_no})

\* C1: in the table extract_to_dataframe returns no two rows share a Reg_No,
\* every Reg_No parsed has a row, and the row of a Reg_No is the first entry
\* that carries it, the entries taken page by page and, within a page, in
\* order of appearance.
C1_FirstSeenKept ==
    pc = "done" =>
        /\ \A k, l \in 1..Len(rows) : k < l => rows[k].Page_Number <= rows[l].Page_Number
        /\ \A i, j \in 1..Len(df.rows) :
              i # j => df.rows[i].Reg_No # df.rows[j].Reg_No
        /\ {rows[k].Reg_No : k \in 1..Len(rows)}
              = {df.rows[i].Reg_No : i \in 1..Len(df.rows)}
        /\ \A i \in 1..Len(df.rows) : \A c \in Range(REQUIRED) :
              df.rows[i][c] = rows[FirstWith(df.rows[i].Reg_No)][c]

\* a run that parsed one Reg_No on two pages with different contents
C1_Witness ==
    /\ pc = "done"
    /\ \E k, l \in 1..Len(rows) :
          /\ rows[k].Reg_No = rows[l].Reg_No
          /\ rows[k].Page_Number < rows[l].Page_Number
          /\ rows[k].Variety_Name # rows[l].Variety_Name
    /\ \E k, l \in 1..Len(rows) :
          /\ rows[k].Reg_No = rows[l].Reg_No
          /\ rows[k].Page_Number = rows[l].Page_Number
          /\ k < l

\* C2: without cancellation ocr_document returns one entry per selected page
\* and the entry at index i is the OCR result of physical page i, whatever
\* the order in which the worker tasks complete.
C2_IndexAligned ==
    (pc = "returned" /\ ~cancel) =>
        /\ Len(texts) = SelectedCount(maxPages, Len(doc))
        /\ \A i \in 1..Len(texts) : texts[i] = ocr_page(PAGES[doc[i]])

\* a run whose first completed task is not that of the first page, the two
\* pages differing in their text
C2_Witness ==
    /\ pc = "returned" /\ ~cancel
    /\ Len(progress) >= 2
    /\ progress[1].page > progress[2].page
    /\ texts[progress[1].page] # texts[progress[2].page]

\* the pages whose result the loop of ocr_document has stored
Stored == {i \in 1..Len(fut) : fut[i].state = "yielded"}

\* C4: in ocr_document no result is stored once cancel_cb is true, and the
\* list has one entry per selected page throughout, so also when returned: a
\* stored page holds its text at its own index, every other entry is "".
C4_CancelKeepsStored ==
    /\ [](/\ Len(texts) = SelectedCount(maxPages, Len(doc))
          /\ count = Cardinality(Stored)
          /\ \A i \in 1..Len(texts) :
                texts[i] = IF i \in Stored THEN ocr_page(PAGES[doc[i]]) ELSE "")
    /\ [][cancel => texts' = texts /\ count' = count]_vars

\* a cancelled run returns with the second of three pages stored alone, the
\* tasks of the others finished but never stored
C4_Witness ==
    /\ pc = "returned" /\ cancel
    /\ Len(texts) = 3 /\ count = 1
    /\ texts[2] # "" /\ texts[1] = "" /\ texts[3] = ""
    /\ \A i \in 1..3 : fut[i].state \in {"finished", "yielded"}

\* the pages hybrid_extract_text has read: one "read" progress call each
ReadCount == Cardinality({j \in 1..Len(progress) : progress[j].stage = "read"})

\* C3: when cancel_cb turns true after k of the n pages were acquired,
\* hybrid_extract_text returns n entries: the k page texts, then n-k empty
\* strings.
C3_CancelledReadPadded ==
    pc = "parse" =>
        /\ Len(texts) = Len(doc)
        /\ \A i \in 1..Len(texts) :
              texts[i] = IF i <= ReadCount THEN HybridText(PAGES[doc[i]]) ELSE ""

\* C5: without cancellation text acquisition returns min(MAX_PAGES, page
\* count) texts when MAX_PAGES is set and page-count texts when it is None,
\* through hybrid_extract_text and through ocr_document.
C5_MaxPagesRespected ==
    (pc \in {"parse", "returned"} /\ ~cancel) =>
        Len(texts) = SelectedCount(maxPages, Len(doc))

\* the marker ocr_page returns for a page that fails
Marker(page) == "[OCR ERROR: " \o page.fails \o " failed]"

\* the page reaches ocr_page and a stage of ocr_page fails for it
OcrFails(page, hybrid) ==
    /\ page.fails # ""
    /\ hybrid => Len(RemoveDevanagari(Strip(page.digital))) < MIN_DIGITAL_LEN

\* C6: a page whose rendering, preprocessing or OCR fails makes nothing
\* raise; without cancellation hybrid_extract_text and ocr_document return
\* one entry for every page they were to read, the failed page holding the
\* marker and every other page its text.
C6_FailedPageMarked ==
    /\ pc # "raised"
    /\ (pc = "parse" /\ ~cancel) =>
          /\ Len(texts) = Len(doc)
          /\ \A i \in 1..Len(texts) :
                texts[i] = IF OcrFails(PAGES[doc[i]], TRUE)
                           THEN Marker(PAGES[doc[i]]) ELSE HybridText(PAGES[doc[i]])
    /\ (pc = "returned" /\ ~cancel) =>
          /\ Len(texts) = Len(fut)
          /\ \A i \in 1..Len(texts) :
                texts[i] = IF OcrFails(PAGES[doc[i]], FALSE)
                           THEN Marker(PAGES[doc[i]])
                           ELSE Strip(RemoveDevanagari(PAGES[doc[i]].ocr))

\* ocr_document returns three texts: the first page failed and holds the
\* marker, the pages after it hold their text
C6_Witness ==
    /\ pc = "returned" /\ ~cancel
    /\ Len(texts) = 3
    /\ PAGES[doc[1]].fails = "render"
    /\ texts[1] = "[OCR ERROR: render failed]"
    /\ PAGES[doc[2]].fails = "" /\ texts[2] # ""
    /\ PAGES[doc[3]].fails = "" /\ texts[3] # ""

\* the page kinds that yield no block: no anchor followed by 15 characters
NoBlockKinds == {"noise", "torn"}

\* C7: extract_to_dataframe raises nothing; the table it returns carries the full column schema, and has zero rows
\* (and no summaries) when no page yields a block, a document of zero pages
\* included.
C7_AlwaysATable ==
    /\ pc # "raised"
    /\ pc = "done" =>
          /\ df.columns = REQUIRED \o <<"Audit_Flags">>
          /\ \A i \in 1..Len(df.rows) : DOMAIN df.rows[i] = Range(df.columns)
          /\ (\A i \in 1..Len(doc) : doc[i] \in NoBlockKinds) =>
                (df.rows = <<>> /\ summaries = <<>>)

\* an uncancelled run over a failing page and a noise page returns no row
C7_Witness ==
    /\ pc = "done" /\ ~cancel
    /\ Len(doc) >= 2
    /\ \E i, j \in 1..Len(doc) : doc[i] = "torn" /\ doc[j] = "noise"
    /\ \A i \in 1..Len(doc) : doc[i] \in NoBlockKinds
    /\ parsed = Len(doc)
    /\ df.rows = <<>>

\* the classifier fields of an Entry
ENTRY_FIELDS ==
    { "Variety_Name", "Crop", "Variety_Type", "Applicant", "Applicant_Type",
      "Charter_of_Crop", "Taxonomy", "Productivity", "Productivity_Confidence",
      "Distinctiveness", "Developer_or_Breeder", "Block_Text" }

\* the block has a character that is neither white space nor Devanagari
HasLatin(b) ==
    \E i \in 1..Len(b) : ~IsSpace(Ch(b, i)) /\ Ch(b, i) \notin Devanagari

\* C8: parse_block raises for no block; the Entry it returns has the twelve
\* classifier fields, each a string that is not empty; Productivity_Confidence
\* is "Low" when Productivity is "NA"; for a block without any Latin text
\* every field is "NA" and the confidence "Low".
C8_ParseBlockTotal ==
    /\ pc # "raised"
    /\ pc \in {"entry", "audited"} =>
          /\ DOMAIN entry = ENTRY_FIELDS
          /\ \A f \in ENTRY_FIELDS : entry[f] \in STRING /\ entry[f] # ""
          /\ entry.Productivity_Confidence \in {"High", "Medium", "Low"}
          /\ entry.Productivity = "NA" => entry.Productivity_Confidence = "Low"
          /\ ~HasLatin(block) =>
                \A f \in ENTRY_FIELDS :
                    entry[f] = IF f = "Productivity_Confidence" THEN "Low" ELSE "NA"

\* parse_block has returned for a block of Devanagari text and white space
C8_Witness ==
    /\ pc = "entry"
    /\ block = " ~~~ \n ~~~ \n"
    /\ entry.Block_Text = "NA"
    /\ entry.Productivity_Confidence = "Low"

\* C10: for the block of Scenario A parse_block and the audit yield
\* Variety_Name "Pusa Basmati 1 (IET 10000)", Crop "Rice", Variety_Type
\* "Notified", the full name of IARI as Applicant, Productivity "45 q/ha" at
\* confidence "High", and Audit_Flags "OK".
C10_ScenarioA ==
    (pc = "audited" /\ block = ScenarioA) =>
        /\ entry.Variety_Name = "Pusa Basmati 1 (IET 10000)"
        /\ entry.Crop = "Rice"
        /\ entry.Variety_Type = "Notified"
        /\ entry.Applicant = "ICAR-Indian Agricultural Research Institute (Pusa)"
        /\ entry.Productivity = "45 q/ha"
        /\ entry.Productivity_Confidence = "High"
        /\ audit = "OK"

\* the spellings of q/ha among the units of the mentions
QHA_SPELLINGS == {u \in MENTION_UNITS : Lower(u) = "q/ha"}

\* C11, with the value as it is returned: for every block whose yield mention
\* is "<n> q/ha" (any letter case, any white space before the unit) with
\* 5 <= n <= 150, bounds included, detect_productivity returns n rounded to two
\* decimals, written as a float, in q/ha, with confidence "High".
C11_QhaMentionHigh ==
    pc = "detected" =>
        \A pre \in MENTION_PREFIXES, n \in NUMERALS, gap \in MENTION_GAPS,
           u \in QHA_SPELLINGS, suf \in MENTION_SUFFIXES :
            (block = Mention(pre, n, gap, u, suf) /\ n.inrange) =>
                ret_prod = <<n.shown \o " q/ha", "High">>

C11_Witness ==
    /\ pc = "detected"
    /\ block \in {"Yield: 150 q/ha", "120\nyield 5\nQ/Ha approx."}
    /\ ret_prod[2] = "High"

\* C11 as the claim words it: the value returned is n itself
C11_ValueReturned ==
    pc = "detected" =>
        \A pre \in MENTION_PREFIXES, n \in NUMERALS, gap \in MENTION_GAPS,
           u \in QHA_SPELLINGS, suf \in MENTION_SUFFIXES :
            (block = Mention(pre, n, gap, u, suf) /\ n.inrange) =>
                ret_prod = <<n.exact \o " q/ha", "High">>

\* the factor the claim gives for a unit written in lower case without spaces
ClaimedFactor(u) ==
    IF u \in {"t/ha", "ton/ha", "tons/ha", "tonnes/ha"} THEN <<10, 1>>
    ELSE IF u \in {"kg/ha", "kgs/ha", "kilogram/ha"} THEN <<1, 100>>
    ELSE IF u \in {"q/acre", "quintal/acre", "quintals/acre"} THEN <<247, 100>>
    ELSE IF u \in {"t/acre", "ton/acre", "tons/acre"} THEN <<247, 10>>
    ELSE IF u \in {"kg/acre", "kgs/acre"} THEN <<100, 4047>>
    ELSE <<1, 1>>

\* the fractions a and b are the same number
SameNumber(a, b) == a[1] * b[2] = b[1] * a[2]

\* C12: normalize_units(v, u) is 10v for the ton/ha units, v/100 for kg/ha,
\* 2.47v for quintal/acre, 24.7v for ton/acre, v/40.47 for kg/acre, and v for
\* quintal/ha, for a blank or missing unit and for any other unit string; the
\* unit is compared ignoring letter case and spaces.
C12_UnitsNormalized ==
    pc = "normalized" =>
        \E f \in {ClaimedFactor(RemoveSpaces(Lower(arg_unit)))} :
            SameNumber(ret_qha, <<arg_value[1] * f[1], arg_value[2] * f[2]>>)

C12_Witness ==
    /\ pc = "normalized"
    /\ arg_unit = " t / acre "
    /\ arg_value = <<9, 2>>
    /\ SameNumber(ret_qha, <<11115, 100>>)

\* the pieces after the preamble whose span, cleaned and trimmed, has at
\* least 15 characters
KeptPieces == SelectSeq(Tail(pieces), LAMBDA x : Len(x.span.clean) >= 15)

\* C13: parse_entries_from_text yields one Entry for each anchor
\* (REG/<4 digits>/<number>, any letter case) whose span up to the next anchor
\* or the end of the text has at least 15 characters after trimming, in anchor
\* order, each with its anchor text as Reg_No; a shorter span yields no Entry,
\* a text without anchor yields no Entry, and nothing is raised.
C13_OneEntryPerAnchor ==
    /\ pc # "raised"
    /\ pc \in {"segmented", "audited"} =>
          /\ Len(rows) = Len(KeptPieces)
          /\ \A k \in 1..Len(rows) :
                /\ rows[k].Reg_No = KeptPieces[k].anchor
                /\ rows[k].Block_Text = KeptPieces[k].span.clean

C13_Witness ==
    /\ pc = "segmented"
    /\ Len(pieces) = 3
    /\ Len(pieces[2].span.clean) = 14
    /\ Len(pieces[3].span.clean) = 15
    /\ pieces[3].anchor = "reg/1999/12"
    /\ Len(rows) = 1

\* no word of the crop lexicon occurs in s, in any letter case
NoCropWord(s) == \A i \in 1..Len(CROP_WORDS) : ~Contains(Lower(s), CROP_WORDS[i])

\* C14: a block of at least 15 characters in which no word of the crop lexicon
\* occurs is still kept as an Entry; the Entry has Crop = "NA" and, once
\* audited, its Audit_Flags contains "crop_unknown".
C14_CropAgnostic ==
    pc \in {"segmented", "audited"} =>
        \A k \in 1..Len(KeptPieces) :
            NoCropWord(KeptPieces[k].span.clean) =>
                /\ k <= Len(rows)
                /\ rows[k].Block_Text = KeptPieces[k].span.clean
                /\ rows[k].Crop = "NA"
                /\ pc = "audited" => Contains(rows[k].Audit_Flags, "crop_unknown")

C14_Witness ==
    /\ pc = "audited"
    /\ Len(rows) = 2
    /\ rows[1].Crop = "Maize"
    /\ rows[2].Block_Text = "Kisan REG/20/1 selection, 52 q/ha"
    /\ rows[2].Crop = "NA"

\* the codes of the eight audit rules, in the order of the rules
AUDIT_CODES == <<"no_variety_name", "crop_unknown", "variety_type_missing",
                 "productivity_missing", "productivity_unparsable",
                 "productivity_out_of_range", "applicant_missing",
                 "cotton_taxonomy_unknown">>

\* what is known of the Productivity text of row r
ProductivityCase(r) == CHOOSE p \in PRODUCTIVITY_CASES : p.text = r.Productivity

\* the rule with the given code fires on row r
Fires(code, r) ==
    CASE code = "no_variety_name" -> r.Variety_Name \in {"NA", ""}
      [] code = "crop_unknown" -> r.Crop = "NA"
      [] code = "variety_type_missing" -> r.Variety_Type = "NA"
      [] code = "productivity_missing" -> r.Productivity = "NA"
      [] code = "productivity_unparsable" ->
            r.Productivity # "NA" /\ ~ProductivityCase(r).parses
      [] code = "productivity_out_of_range" ->
            ProductivityCase(r).parses /\ ~ProductivityCase(r).inrange
      [] code = "applicant_missing" -> r.Applicant = "NA"
      [] code = "cotton_taxonomy_unknown" -> r.Crop = "Cotton" /\ r.Taxonomy = "NA"

\* the codes of the rules that fire on row r, in the order of the rules
FiredCodes(r) == SelectSeq(AUDIT_CODES, LAMBDA code : Fires(code, r))

\* C15: Audit_Flags is "OK" exactly when none of the eight rules fires;
\* otherwise it is the comma-joined list of exactly the codes of the rules that
\* fire, each rule decided on its own fields.
C15_FlagsAreFiredRules ==
    pc = "audited" =>
        /\ audit = "OK" <=> FiredCodes(entry) = <<>>
        /\ FiredCodes(entry) # <<>> => audit = JoinComma(FiredCodes(entry))

C15_Witness ==
    /\ pc = "audited"
    /\ entry.Crop = "Cotton"
    /\ entry.Productivity = "150.5"
    /\ audit = "productivity_out_of_range,applicant_missing,cotton_taxonomy_unknown"

-----------------------------------------------------------------------------
\* the columns of the returned table, in order
SCHEMA == REQUIRED \o <<"Audit_Flags">>

\* the columns that hold text
TEXT_COLUMNS == Range(SCHEMA) \ {"Page_Number"}

\* C16: every table extract_to_dataframe returns has the fixed columns in the
\* fixed order, Audit_Flags last; every row has a cell for every column, a
\* string in the text columns and the number of a page in Page_Number; and a
\* column that no entry carried holds "NA" in every row.
C16_FixedSchema ==
    pc = "done" =>
       /\ df.columns = SCHEMA
       /\ \A i \in 1..Len(df.rows) :
             /\ \A c \in Range(SCHEMA) : c \in DOMAIN df.rows[i]
             /\ \A c \in TEXT_COLUMNS : df.rows[i][c] \in STRING
             /\ df.rows[i].Page_Number \in 1..Len(texts)
       /\ \A c \in Range(REQUIRED) :
             (\A k \in 1..Len(rows) : c \notin DOMAIN rows[k]) =>
                \A i \in 1..Len(df.rows) : df.rows[i][c] = "NA"

\* a run returns a table of at least two rows from different pages, one of
\* them of unknown crop
C16_Witness ==
    /\ pc = "done"
    /\ df.columns = SCHEMA
    /\ Len(df.rows) >= 2
    /\ \E i, j \in 1..Len(df.rows) : df.rows[i].Page_Number # df.rows[j].Page_Number
    /\ \E i \in 1..Len(df.rows) : df.rows[i].Crop = "NA"

-----------------------------------------------------------------------------
\* the summaries and the column each one groups by
SUMMARY_OF ==
    [Summary_Crop |-> "Crop",
     Summary_Applicant_Type |-> "Applicant_Type",
     Summary_Variety_Type |-> "Variety_Type"]

RECURSIVE CountSum(_)
CountSum(t) == IF t = <<>> THEN 0 ELSE t[1][2] + CountSum(Tail(t))

\* t is a grouped count of column col of table f
IsGroupCountOf(t, f, col) ==
    /\ \A k \in 1..(Len(t) - 1) : t[k][2] >= t[k + 1][2]
    /\ \A k, l \in 1..Len(t) : t[k][1] = t[l][1] => k = l
    /\ {t[k][1] : k \in 1..Len(t)} = {f.rows[i][col] : i \in 1..Len(f.rows)}
    /\ \A k \in 1..Len(t) :
          t[k][2] = Cardinality({i \in 1..Len(f.rows) : f.rows[i][col] = t[k][1]})
    /\ CountSum(t) = Len(f.rows)

\* C17 (amended): a run that returns a table of at least one row returns the
\* three grouped counts (by Crop, by Applicant_Type, by Variety_Type), each
\* sorted by descending count, listing every distinct value of its column
\* once, its counts summing to the number of rows; a run that returns a table
\* without rows returns no summary at all.
C17_SummariesOfRows ==
    pc = "done" =>
       IF df.rows = <<>> THEN summaries = <<>>
       ELSE /\ DOMAIN summaries = DOMAIN SUMMARY_OF
            /\ \A n \in DOMAIN SUMMARY_OF : IsGroupCountOf(summaries[n], df, SUMMARY_OF[n])

\* a table of three rows with two crops, the crop that sorts first being the
\* rarer one
C17_Witness ==
    /\ pc = "done"
    /\ Len(df.rows) >= 3
    /\ Len(summaries.Summary_Crop) >= 2
    /\ summaries.Summary_Crop[1][2] > summaries.Summary_Crop[2][2]
    /\ StrLess(summaries.Summary_Crop[2][1], summaries.Summary_Crop[1][1])

\* C17 as stated: every run returns the three grouped counts
C17_SummariesEveryRun ==
    pc = "done" =>
       /\ DOMAIN summaries = DOMAIN SUMMARY_OF
       /\ \A n \in DOMAIN SUMMARY_OF : IsGroupCountOf(summaries[n], df, SUMMARY_OF[n])

-----------------------------------------------------------------------------
\* the stages that report progress
STAGES == {"read", "ocr", "parse"}

\* the progress_cb calls of one stage, in the order they were made
StageCalls(stage) == SelectSeq(progress, LAMBDA c : c.stage = stage)

\* fraction a is less than fraction b
FracLess(a, b) == a[1] * b[2] < b[1] * a[2]

\* the pages a stage has completed
Completed(stage) ==
    IF stage = "read" THEN (IF pc \in {"read", "parse", "done", "raised"} THEN 1..Len(texts) ELSE {})
    ELSE IF stage = "parse" THEN 1..parsed
    ELSE {i \in 1..Len(fut) : fut[i].state = "yielded"}

\* the loop of a stage has ended
StageOver(stage) ==
    IF stage = "read" THEN pc \in {"parse", "done", "raised"}
    ELSE IF stage = "parse" THEN pc = "done"
    ELSE pc \in {"shutdown", "returned"}

ProgressWellFormed ==
    /\ \A k \in 1..Len(progress) :
          /\ DOMAIN progress[k] = {"frac", "page", "stage"}
          /\ progress[k].frac[2] > 0
          /\ 0 <= progress[k].frac[1] /\ progress[k].frac[1] <= progress[k].frac[2]
          /\ progress[k].page \in 1..Len(doc)
          /\ progress[k].stage \in STAGES
    /\ \A stage \in STAGES :
          LET calls == StageCalls(stage)
          IN  /\ {calls[k].page : k \in 1..Len(calls)} = Completed(stage)
              /\ \A k, l \in 1..Len(calls) : calls[k].page = calls[l].page => k = l
              /\ \A k \in 1..(Len(calls) - 1) : FracLess(calls[k].frac, calls[k + 1].frac)
              /\ (StageOver(stage) /\ ~cancel /\ calls # <<>>) =>
                     calls[Len(calls)].frac[1] = calls[Len(calls)].frac[2]

\* C18: every progress call of the read, ocr and parse loops carries a
\* fraction within [0,1], a page and a stage; within a stage there is exactly
\* one call for each completed page, the fractions strictly increase and the
\* last one is 1 when the stage ends without cancellation; and once the
\* cancel flag is set no further call is made (each loop polls the flag
\* before it touches a page, so a flag set while a page is at work is seen at
\* the next poll).
C18_ProgressProtocol ==
    /\ []ProgressWellFormed
    /\ [][cancel => progress' = progress]_vars

\* ocr_document has collected three pages out of page order, uncancelled
C18_Witness ==
    /\ pc = "returned" /\ ~cancel
    /\ Len(progress) = 3
    /\ progress[1].page > progress[2].page
    /\ progress[3].frac = <<3, 3>>

-----------------------------------------------------------------------------
\* the entries of pages 1..k of texts, in page order, each with its page
RECURSIVE EntriesOfPages(_)
EntriesOfPages(k) ==
    IF k = 0 THEN <<>>
    ELSE EntriesOfPages(k - 1) \o PageEntries(EntriesOfText[texts[k]], k)

\* the indices of es at which a Reg_No occurs for the first time
FirstSeen(es) ==
    {j \in 1..Len(es) : \A h \in 1..(j - 1) : es[h].Reg_No # es[j].Reg_No}

\* table f holds the entries es, deduplicated and audited, and nothing else
IsTableOf(f, es) ==
    /\ Len(f.rows) = Cardinality(FirstSeen(es))
    /\ \A j \in FirstSeen(es) :
          f.rows[Cardinality({h \in FirstSeen(es) : h <= j})] =
             es[j] @@ [Audit_Flags |-> _row_audit_flags(es[j])]

\* every page was read and the flag was set before the last page was parsed
CancelledInParse == cancel /\ Len(texts) = Len(doc) /\ parsed < Len(texts)

\* C19: when the cancel flag is first seen in the parse loop, after k pages
\* were parsed, no further page is parsed, the only step left is the return,
\* no exception is raised, and the table returned holds exactly the entries
\* of pages 1..k, deduplicated and audited.
C19_CancelInParse ==
    /\ [](pc # "raised")
    /\ []((pc = "done" /\ CancelledInParse) =>
            \A es \in {EntriesOfPages(parsed)} : rows = es /\ IsTableOf(df, es))
    /\ [][(pc = "parse" /\ cancel) =>
            (pc' = "done" /\ rows' = rows /\ parsed' = parsed)]_vars

\* a run cancelled after one parsed page of three: the table holds the
\* entries of page 1 and none of the entries the later pages would give
C19_Witness ==
    /\ pc = "done" /\ CancelledInParse
    /\ Len(doc) = 3 /\ parsed = 1
    /\ df.rows # <<>>
    /\ \A i \in 1..Len(df.rows) : df.rows[i].Page_Number = 1
    /\ EntriesOfText[texts[2]] # <<>>
    /\ \E e \in Range(EntriesOfText[texts[3]]) :
          \A i \in 1..Len(df.rows) : df.rows[i].Reg_No # e.Reg_No

-----------------------------------------------------------------------------
\* C20: in hybrid_extract_text the text of a page is its embedded text,
\* trimmed and then script-filtered, exactly when that text has at least 150
\* characters, and then ocr_page is not called; when it has fewer, ocr_page
\* is called once and the page text is what it returns, the OCR text or the
\* error marker.
C20_DigitalOrOcr ==
    pc = "paged" =>
       IF Len(arg_page.clean) >= 150
       THEN texts = <<arg_page.clean>> /\ ocr_fallbacks = 0
       ELSE texts = <<arg_page.result>> /\ ocr_fallbacks = 1

\* a page whose embedded text has 150 characters once the Devanagari is
\* removed, a blank left at its start, is taken as it is
C20_Witness ==
    /\ pc = "paged"
    /\ Len(arg_page.clean) = 150
    /\ Len(arg_page.digital) > 150
    /\ SubSeq(arg_page.clean, 1, 1) = " "
    /\ texts = <<arg_page.clean>>
    /\ ocr_fallbacks = 0

-----------------------------------------------------------------------------
\* the last line case of q that holds a mention, <<>> if none does
LastMention(q) ==
    LET at == {i \in 1..Len(q) : q[i].mention # "none"}
    IN  IF at = {} THEN <<>> ELSE <<q[Max(at)]>>

\* the last five of the lines clean_lines keeps
LastFiveKept(q) ==
    LET kept == SelectSeq(q, LAMBDA c : c.kept)
    IN  IF Len(kept) <= 5 THEN kept ELSE SubSeq(kept, Len(kept) - 4, Len(kept))

\* a lone numeral within [5,150]
LoneInRange(c) == c.numeral /\ c.inrange

\* a lone numeral within [5,150] whose integer part has at most three digits
LoneBounded(c) == c.numeral /\ c.inrange /\ c.digits <= 3

\* the result of the two tiers on lines q when Tier 2 accepts the lines of
\* set ok
TwoTiers(q, ok) ==
    LET m == LastMention(q)
        ls == LastFiveKept(q)
        hits == {i \in 1..Len(ls) : ls[i] \in ok}
    IN  IF m # <<>> /\ m[1].mention = "in" THEN <<m[1].shown \o " q/ha", "High">>
        ELSE IF hits # {} THEN <<ls[Min(hits)].shown \o " q/ha", "Medium">>
        ELSE <<"NA", "Low">>

\* C21 (amended): Tier 1 uses only the last "<number><unit>" mention of the
\* block: if its value in q/ha lies in [5,150] the result is that value,
\* rounded to two places, with "High".  Otherwise (no mention, or the last
\* one out of range) Tier 2 scans the last five lines clean_lines keeps and
\* returns, with "Medium", the first that is a lone numeral of at most three
\* integer digits within [5,150]; otherwise the result is ("NA", "Low").
C21_TwoTiers ==
    (pc = "detected" /\ pieces # <<>>) =>
        ret_prod = TwoTiers(pieces, {c \in Range(pieces) : LoneBounded(c)})

\* the only mention of the block is out of range, and a lone numeral that
\* stands five kept lines from the end is returned with "Medium"
C21_Witness ==
    /\ pc = "detected" /\ Len(pieces) = 5
    /\ LoneBounded(pieces[1])
    /\ pieces[5].mention = "out"
    /\ ret_prod = <<pieces[1].shown \o " q/ha", "Medium">>

\* C21 as stated: Tier 2 accepts every lone numeral within [5,150]
C21_AnyLoneNumeral ==
    (pc = "detected" /\ pieces # <<>>) =>
        ret_prod = TwoTiers(pieces, {c \in Range(pieces) : LoneInRange(c)})

-----------------------------------------------------------------------------
\* w stands in b as a whole word: no letter, digit or underscore next to it
WholeWordIn(b, w) ==
    \E i \in 1..Len(b) :
        /\ StartsAt(b, i, w)
        /\ (i = 1 \/ ~IsWord(Ch(b, i - 1)))
        /\ (i + Len(w) > Len(b) \/ ~IsWord(Ch(b, i + Len(w))))

\* the lexicon words that stand in the cleaned block as whole words
CropWordsIn(b0) ==
    {i \in 1..Len(CROP_WORDS) : WholeWordIn(Lower(strip_non_english(b0)), CROP_WORDS[i])}

\* C22: the Crop of an Entry is a lexicon crop whenever that crop word stands
\* in the block as a whole word, in any letter case and whatever delimits it
\* (space, line break, punctuation, start or end of the block); when no
\* lexicon word stands there as a whole word, "tetraploid cotton" or "diploid
\* cotton" give "Cotton", and anything else gives "NA".
C22_WholeWordCrop ==
    (pc \in {"entry", "audited"} /\ clean_lines(block) # <<>>) =>
        IF CropWordsIn(block) # {}
        THEN entry.Crop \in {Capitalize(CROP_WORDS[i]) : i \in CropWordsIn(block)}
        ELSE IF \/ Contains(Lower(block), "tetraploid cotton")
                \/ Contains(Lower(block), "diploid cotton")
             THEN entry.Crop = "Cotton"
        ELSE entry.Crop = "NA"

-----------------------------------------------------------------------------
\* the label of an applicant made of tokens q, public being the label of the
\* public class
ApplicantClass(q, public) ==
    IF \E k \in 1..Len(q) : q[k].farmer THEN "Farmer"
    ELSE IF \E k \in 1..Len(q) : q[k].private THEN "Private Sector"
    ELSE IF \E k \in 1..Len(q) : q[k].public \/ q[k].mapped THEN public
    ELSE "Other"

\* the label claimed for applicant arg_name
ClaimedClass(public) ==
    IF arg_name \in {"", "NA"} THEN "NA"
    ELSE IF pieces = <<>> THEN "Other"
    ELSE ApplicantClass(pieces, public)

VARIETY_LABELS == <<"Extant", "Notified", "New", "Hybrid">>

\* C24: detect_variety_type returns the first of Extant, Notified, New,
\* Hybrid whose keyword occurs in the block, in any letter case and wherever
\* the keywords stand; one label, and "NA" when none occurs.
C24_FirstByPriority ==
    pc = "typed" =>
        LET found == {i \in 1..Len(VARIETY_LABELS) :
                         \E k \in 1..Len(pieces) : VARIETY_LABELS[i] \in pieces[k].keys}
        IN  ret_label = IF found = {} THEN "NA" ELSE VARIETY_LABELS[Min(found)]

\* a block that names "Hybrid" first and "Extant" last is Extant
C24_Witness ==
    /\ pc = "typed" /\ Len(pieces) = 3
    /\ pieces[1].keys = {"Hybrid"}
    /\ pieces[2].keys = {"New"}
    /\ pieces[3].keys = {"Extant"}
    /\ ret_label = "Extant"

\* ---------------------------------------------------------------------
\* C25: in every entry Taxonomy differs from "NA" only if Crop is "Cotton";
\* for a Cotton entry Taxonomy is "Tetraploid Cotton" when the tetraploid
\* pattern is found, else "Diploid Cotton" when the diploid pattern is
\* found, else "NA"; the crop of that decision is the Crop of the entry.
TaxonomyOf(crop, tetraploid, diploid) ==
    IF crop # "Cotton" THEN "NA"
    ELSE IF tetraploid THEN "Tetraploid Cotton"
    ELSE IF diploid THEN "Diploid Cotton"
    ELSE "NA"

C25_TaxonomyOfCotton ==
    pc \in {"entry", "audited"} =>
        /\ entry.Taxonomy \in {"NA", "Tetraploid Cotton", "Diploid Cotton"}
        /\ entry.Taxonomy # "NA" => entry.Crop = "Cotton"
        /\ \A c \in COTTON_BLOCKS :
              block = c.text =>
                  /\ entry.Crop = c.crop
                  /\ entry.Taxonomy = TaxonomyOf(entry.Crop, c.tetraploid, c.diploid)

\* a Cotton entry on which both patterns are found, taken as tetraploid
C25_Witness ==
    /\ pc = "entry"
    /\ entry.Crop = "Cotton"
    /\ entry.Taxonomy = "Tetraploid Cotton"
    /\ \E c \in COTTON_BLOCKS : block = c.text /\ c.tetraploid /\ c.diploid

\* ---------------------------------------------------------------------
\* C26: in a batch run every discovered PDF is attempted exactly once, in
\* order; an exception while processing one PDF is caught and counted and
\* neither prevents the processing of the later PDFs nor changes their
\* results; at the end succeeded + failed is the number of PDFs, and the
\* exit status is 1 when no PDF was found, else 0 when none failed, else 2.
Fails(pdf) == ~FILES[pdf].readable \/ ~FILES[pdf].writable

Failed == {k \in 1..Len(attempts) : HasRaised(attempts[k].result)}

Idle ==
    /\ ~app_state.running
    /\ btn_start = "normal"
    /\ btn_cancel = "disabled"

C27_ReturnsToIdle == app_state.running ~> Idle

\* without a cancel request every batch returns to idle
C27_IdleUnlessCancelled ==
    app_state.running ~> (Idle \/ app_state.cancel_requested)

\* the worker has stopped on a cancel request and the window still runs
C27_Stuck ==
    /\ worker # <<>> /\ ~worker[1].alive
    /\ worker[1].idx < Len(worker[1].files)
    /\ res_q = <<>>
    /\ app_state.running /\ btn_start = "disabled"

\* ---------------------------------------------------------------------
\* C28: if the cancel predicate becomes true during the acquisition phase
\* and stays true, extract_to_dataframe parses no page: nothing is parsed
\* during acquisition, a cancelled run with no page parsed stays so at
\* every step, and in such a run no row is collected, the texts kept are
\* those of the pages read before, and the table returned has zero rows
\* and the summaries map is empty.
ParsesNothing ==
    /\ parsed = 0 /\ rows = <<>>
    /\ Len(texts) <= Len(doc)
    /\ \A i \in 1..Len(texts) : texts[i] = HybridText(PAGES[doc[i]])
    /\ StageCalls("parse") = <<>>
    /\ pc = "done" => /\ df.rows = <<>>
                      /\ df.columns = REQUIRED \o <<"Audit_Flags">>
                      /\ summaries = <<>>

C28_CancelInAcquisition ==
    /\ [](pc = "read" => parsed = 0)
    /\ []((cancel /\ parsed = 0) => ParsesNothing)
    /\ [][(cancel /\ parsed = 0) => (cancel' /\ parsed' = 0)]_vars

\* two pages with entries were read, the third was not, nothing was parsed
C28_Witness ==
    /\ pc = "done" /\ cancel
    /\ Len(doc) = 3 /\ Len(texts) = 2
    /\ EntriesOfText[texts[1]] # <<>> /\ EntriesOfText[texts[2]] # <<>>
    /\ parsed = 0 /\ df.rows = <<>> /\ summaries = <<>>

\* ---------------------------------------------------------------------
\* C29: in every row the pipeline produces the Productivity cell is "NA"
\* or "<v> q/ha" with 5 <= v <= 150, Productivity_Confidence is "Low"
\* exactly when Productivity is "NA", and Audit_Flags holds neither
\* "productivity_out_of_range" nor "productivity_unparsable".
QhaText(prod) ==
    /\ Len(prod) > 5
    /\ SubSeq(prod, Len(prod) - 4, Len(prod)) = " q/ha"
    /\ \E v \in {SubSeq(prod, 1, Len(prod) - 5)} :
          /\ IsDecimal(v) /\ IsDigit(Ch(v, 1))
          /\ 5 * DecimalValue(v)[2] <= DecimalValue(v)[1]
          /\ DecimalValue(v)[1] <= 150 * DecimalValue(v)[2]

ProductivityCell(r) ==
    /\ r.Productivity = "NA" \/ QhaText(r.Productivity)
    /\ r.Productivity_Confidence \in {"High", "Medium", "Low"}
    /\ r.Productivity_Confidence = "Low" <=> r.Productivity = "NA"

NoProductivityFlag(flags) ==
    /\ ~Contains(flags, "productivity_out_of_range")
    /\ ~Contains(flags, "productivity_unparsable")

C29_ProductivityCell ==
    /\ pc = "done" =>
          \A i \in 1..Len(df.rows) :
              /\ ProductivityCell(df.rows[i])
              /\ NoProductivityFlag(df.rows[i].Audit_Flags)
              /\ Contains(df.rows[i].Audit_Flags, "productivity_missing")
                    <=> df.rows[i].Productivity = "NA"
    /\ pc \in {"entry", "audited"} =>
          /\ ProductivityCell(entry)
          /\ \A c \in PRODUCTIVITY_BLOCKS :
                block = c.text =>
                    /\ entry.Productivity = c.productivity
                    /\ entry.Productivity_Confidence = c.confidence
    /\ pc = "audited" =>
          /\ NoProductivityFlag(audit)
          /\ Contains(audit, "productivity_missing") <=> entry.Productivity = "NA"

\* a table with a stated yield and a lone number taken as the yield, both
\* in range and neither flagged
C29_Witness ==
    /\ pc = "done"
    /\ \E i, j \in 1..Len(df.rows) :
          /\ df.rows[i].Productivity_Confidence = "High"
          /\ df.rows[j].Productivity_Confidence = "Medium"
          /\ QhaText(df.rows[i].Productivity)
          /\ QhaText(df.rows[j].Productivity)
          /\ ~Contains(df.rows[j].Audit_Flags, "productivity")

\* ---------------------------------------------------------------------
\* C30: the table and the summaries extract_to_dataframe returns do not
\* depend on Config.TARGET_CROPS or Config.FIELD_PATTERNS: a run under any
\* other value of the two options returns the same, and no entry is
\* dropped or altered because its crop is not a target crop.

\* the Reg_No, Crop and Page_Number of the rows of the tables of the PDFs
BATCH_TABLES ==
    ("in/a.pdf" :> <<<<"REG/2020/1", "NA", 1>>, <<"REG/2020/2", "Cotton", 1>>>>)
 @@ ("in/c.d.pdf" :> <<<<"REG/2020/2", "Maize", 1>>, <<"REG/2020/3", "NA", 1>>>>)
 @@ ("old/a.pdf" :> <<>>)

\* values of the two options, those of the --crops option among them
Configs ==
    {Config(t, f) : t \in {<<>>, <<"rice">>, <<"sorghum", "wheat">>, DEFAULT_CROPS},
                    f \in {<<>>, DEFAULT_PATTERNS}}

RowKeys(f) ==
    [i \in 1..Len(f.rows) |->
        <<f.rows[i].Reg_No, f.rows[i].Crop, f.rows[i].Page_Number>>]

====
